---------------------------- MODULE Spec2Model ----------------------------
(***************************************************************************)
(* A model of rtool's user-mode MIPS-I simulator (src/src/sim): the paged  *)
(* Memory, the Exec register file and stepper, traps and syscalls, and the *)
(* instruction codec (src/src/common/instruction.rs) that step uses.       *)
(*                                                                         *)
(* 32-bit words.  TLC's integers are 32-bit signed, so a u32 is held as    *)
(* the i32 with the same bit pattern (0xFFFFFFFF is -1, 0x80000000 is      *)
(* -2^31).  Every operator below states which reading (u32 or i32) the     *)
(* Rust code uses at that place.                                           *)
(***************************************************************************)
EXTENDS Integers, Sequences, FiniteSets, TLC

VARIABLES
    exec,       \* the Exec value (ctx, mem, heap_*, exn, files, next_fd, args)
    alive,      \* FALSE once the simulator process has panicked (aborted)
    driver,     \* "run": Exec::run's loop drives step; "step": a caller calls
                \* step; "new": Exec::new returned None, there is no Exec;
                \* "api": no Exec runs, the library is driven by its API
    build,      \* [overflow_checks]: the build profile of the binary
    module,     \* the ObjectModule the Exec was built from
    stdin,      \* the lines still to be read from standard input
    last,       \* history: what the last call of step did
    nsteps,     \* history: number of step calls made after step returned an error
    memory,     \* a Memory value driven through its own API (MemSpec)
    memlast,    \* history: the last Memory operation and its result
    roCalled,   \* history: virtual pages alloc_page was called on with write=false
    roFresh,    \* history: those of them that alloc_page then mapped
    nwrites,    \* history: number of write_* calls made (MemSpec)
    call        \* history: the last call of a library function (the codecs,
                \* the string table functions), its arguments and its result

vars == << exec, alive, driver, build, module, stdin, last, nsteps,
           memory, memlast, roCalled, roFresh, nwrites, call >>

execVars == << exec, alive, driver, build, module, stdin, last, nsteps >>
memVars  == << memory, memlast, roCalled, roFresh, nwrites >>

-----------------------------------------------------------------------------
(* 32-bit words                                                            *)

\* The word whose upper half is hi and lower half lo (each 0..65535).
Word(hi, lo) == (IF hi >= 32768 THEN hi - 65536 ELSE hi) * 65536 + lo

Lo16(w) == w % 65536
Hi16(w) == (w \div 65536) % 65536

I32Max == Word(32767, 65535)
I32Min == Word(32768, 0)

\* u32::wrapping_add; also what `a + b` does on u32/i32 without overflow checks
WrapAdd(a, b) ==
    LET lo == Lo16(a) + Lo16(b)
        hi == Hi16(a) + Hi16(b) + (lo \div 65536)
    IN  Word(hi % 65536, lo % 65536)

\* u32::wrapping_sub
WrapSub(a, b) ==
    LET lo == Lo16(a) - Lo16(b)
        hi == Hi16(a) - Hi16(b) + (lo \div 65536)
    IN  Word(hi % 65536, lo % 65536)

\* the i32 overflow test taking an unsigned carry for an overflow too
AddOverflowsOrCarries(a, b) ==
    \/ b > 0 /\ a > I32Max - b
    \/ b < 0 /\ a < I32Min - b
    \/ Hi16(a) + Hi16(b) + ((Lo16(a) + Lo16(b)) \div 65536) >= 65536

\* i32 addition overflows (a, b read as i32)
AddOverflowsI32(a, b) ==
    \/ b > 0 /\ a > I32Max - b
    \/ b < 0 /\ a < I32Min - b

\* i32 subtraction overflows (a, b read as i32)
SubOverflowsI32(a, b) ==
    \/ b < 0 /\ a > I32Max + b
    \/ b > 0 /\ a < I32Min + b

\* u32 addition overflows (a, b read as u32): the sum is 2^32 or more
AddOverflowsU32(a, b) ==
    Hi16(a) + Hi16(b) + ((Lo16(a) + Lo16(b)) \div 65536) >= 65536

\* a < b, both read as u32
LtU(a, b) == IF (a < 0) = (b < 0) THEN a < b ELSE b < 0

\* w >> n on u32 (logical), 0 <= n <= 31
Shr(w, n) ==
    IF n = 0 THEN w
    ELSE LET q == w \div (2 ^ n)
         IN  IF q >= 0 THEN q ELSE (q + ((2 ^ (31 - n) - 1) * 2 + 1)) + 1

\* w >> n on i32 (arithmetic), 0 <= n <= 31
Sra(w, n) == w \div (2 ^ n)

\* w << n on u32, 0 <= n <= 31: bits 0..31-n of w move up, bit 31-n becomes bit 31
Shl(w, n) ==
    IF n = 0 THEN w
    ELSE LET k == 2 ^ (31 - n)
         IN  (w % k) * (2 ^ n) + (IF (w \div k) % 2 = 1 THEN I32Min ELSE 0)

\* bitwise operations on n-bit naturals (n a multiple of 4), a hexadecimal
\* digit at a time
RECURSIVE AndBits(_, _, _)
AndBits(a, b, n) ==
    IF n = 0 THEN 0
    ELSE ((a % 2) * (b % 2)) + 2 * AndBits(a \div 2, b \div 2, n - 1)

RECURSIVE XorBits(_, _, _)
XorBits(a, b, n) ==
    IF n = 0 THEN 0
    ELSE ((a + b) % 2) + 2 * XorBits(a \div 2, b \div 2, n - 1)

AndTab == [x \in 0..15 |-> [y \in 0..15 |-> AndBits(x, y, 4)]]
XorTab == [x \in 0..15 |-> [y \in 0..15 |-> XorBits(x, y, 4)]]

RECURSIVE AndN(_, _, _)
AndN(a, b, n) ==
    IF n = 0 THEN 0
    ELSE AndTab[a % 16][b % 16] + 16 * AndN(a \div 16, b \div 16, n - 4)

RECURSIVE XorN(_, _, _)
XorN(a, b, n) ==
    IF n = 0 THEN 0
    ELSE XorTab[a % 16][b % 16] + 16 * XorN(a \div 16, b \div 16, n - 4)

And32(a, b) == Word(AndN(Hi16(a), Hi16(b), 16), AndN(Lo16(a), Lo16(b), 16))
Xor32(a, b) == Word(XorN(Hi16(a), Hi16(b), 16), XorN(Lo16(a), Lo16(b), 16))
Not32(a)    == Word(65535 - Hi16(a), 65535 - Lo16(a))
Or32(a, b)  == Not32(And32(Not32(a), Not32(b)))

\* `x as i16 as i32` / `x as i16 as u32` for a 16-bit x: sign extension
SignExt16(x) == IF x >= 32768 THEN x - 65536 ELSE x
\* `x as i8 as u32` for an 8-bit x
SignExt8(x) == IF x >= 128 THEN x - 256 ELSE x

\* u32::to_be_bytes: the four bytes of w, most significant first
to_be_bytes(w) ==
    << Hi16(w) \div 256, Hi16(w) % 256, Lo16(w) \div 256, Lo16(w) % 256 >>

\* u32::from_be_bytes
from_be_bytes(b) == Word(b[1] * 256 + b[2], b[3] * 256 + b[4])

\* u16::to_be_bytes / from_be_bytes
to_be_bytes16(h) == << h \div 256, h % 256 >>
from_be_bytes16(b) == b[1] * 256 + b[2]

None == [some |-> FALSE]
Some(v) == [some |-> TRUE, v |-> v]

-----------------------------------------------------------------------------
(* sim/mod.rs: layout constants                                            *)

TEXT_START  == Word(64, 0)          \* 0x00400000
DATA_START  == Word(4096, 0)        \* 0x10000000
STACK_START == Word(32767, 61436)   \* 0x7fffeffc
PAGE_BITS   == 12
PAGE_SIZE   == 2 ^ PAGE_BITS
PAGE_MASK   == PAGE_SIZE - 1
STACK_SIZE  == Word(16, 0)          \* 0x00100000

-----------------------------------------------------------------------------
(* sim/mem.rs: Memory                                                      *)
(* A Page is a [u8; 4096]; it is held sparsely as the function from the    *)
(* offsets of its non-zero bytes to those bytes (every other byte is 0).   *)

ZeroPage == << >>

PageGet(p, off) == IF off \in DOMAIN p THEN p[off] ELSE 0

PageSet(p, off, b) ==
    IF b = 0
    THEN [o \in (DOMAIN p) \ {off} |-> p[o]]
    ELSE (off :> b) @@ p

\* Memory::new
MemoryNew == [table |-> << >>, write |-> << >>, exec |-> << >>, pages |-> << >>]

\* PageID(addr >> PAGE_BITS)
VirtPage(addr) == Shr(addr, PAGE_BITS)

map_virt_to_real(m, addr) ==
    LET virt_page == VirtPage(addr)
        page_addr == And32(addr, PAGE_MASK)
    IN  IF virt_page \in DOMAIN m.table
        THEN Some(Or32(Shl(m.table[virt_page], PAGE_BITS), page_addr))
        ELSE None

\* self.pages.get(page_id): frames are indexed from 0 in the code, from 1 here
Frame(m, page_id) == m.pages[page_id + 1]

MemErr(kind) == [ok |-> FALSE, err |-> kind]
MemOk(v) == [ok |-> TRUE, val |-> v]

\* the n bytes .0[page_addr .. page_addr + n] of the frame real address `real`
\* lies in
FrameBytes(m, real, n) ==
    [i \in 1..n |-> PageGet(Frame(m, Shr(real, PAGE_BITS)),
                            And32(real, PAGE_MASK) + i - 1)]

\* the `else if let Some(addr) = self.map_virt_to_real(addr)` part of read_word
ReadWordAt(m, r) ==
    IF r.some THEN MemOk(from_be_bytes(FrameBytes(m, r.v, 4)))
    ELSE MemErr("unmapped")

ReadHalfAt(m, r) ==
    IF r.some THEN MemOk(from_be_bytes16(FrameBytes(m, r.v, 2)))
    ELSE MemErr("unmapped")

ReadByteAt(m, r) ==
    IF r.some THEN MemOk(FrameBytes(m, r.v, 1)[1])
    ELSE MemErr("unmapped")

\* read_word with the alignment test of read_half
read_word_mod2(m, addr) ==
    IF addr % 2 # 0 THEN MemErr("unaligned")
    ELSE ReadWordAt(m, map_virt_to_real(m, addr))

read_word(m, addr) ==
    IF addr % 4 # 0 THEN MemErr("unaligned")
    ELSE ReadWordAt(m, map_virt_to_real(m, addr))

read_half(m, addr) ==
    IF addr % 2 # 0 THEN MemErr("unaligned")
    ELSE ReadHalfAt(m, map_virt_to_real(m, addr))

read_byte(m, addr) == ReadByteAt(m, map_virt_to_real(m, addr))

\* the loop `for b in buf { p.0[page_addr] = b; page_addr += 1 }`
RECURSIVE StoreBytes(_, _, _)
StoreBytes(p, page_addr, buf) ==
    IF buf = << >> THEN p
    ELSE StoreBytes(PageSet(p, page_addr, Head(buf)), page_addr + 1, Tail(buf))

SetFrame(m, page_id, p) == [m EXCEPT !.pages[page_id + 1] = p]

\* the result of a write: ok/err and the Memory afterwards
WrOk(m) == [ok |-> TRUE, mem |-> m]
WrErr(kind, m) == [ok |-> FALSE, err |-> kind, mem |-> m]

\* buf stored at page_addr of frame page_id
StoreAt(m, page_id, page_addr, buf) ==
    SetFrame(m, page_id, StoreBytes(Frame(m, page_id), page_addr, buf))

\* WriteAt with the write flag not consulted
WriteAtUnchecked(m, addr, r, buf) ==
    IF r.some
    THEN WrOk(StoreAt(m, Shr(r.v, PAGE_BITS), And32(r.v, PAGE_MASK), buf))
    ELSE WrErr("unmapped", m)

\* the `else if let Some(real_addr) = self.map_virt_to_real(addr)` part of
\* write_word, write_half and write_byte
WriteAt(m, addr, r, buf) ==
    IF r.some
    THEN IF ~ m.write[VirtPage(addr)]
         THEN WrErr("readonly", m)
         ELSE WrOk(StoreAt(m, Shr(r.v, PAGE_BITS), And32(r.v, PAGE_MASK), buf))
    ELSE WrErr("unmapped", m)

LeBytes(w) == << to_be_bytes(w)[4], to_be_bytes(w)[3], to_be_bytes(w)[2], to_be_bytes(w)[1] >>

\* write_word storing the least significant byte first
write_word_le(m, addr, value) ==
    IF addr % 4 # 0 THEN WrErr("unaligned", m)
    ELSE WriteAt(m, addr, map_virt_to_real(m, addr), LeBytes(value))

write_word(m, addr, value) ==
    IF addr % 4 # 0 THEN WrErr("unaligned", m)
    ELSE WriteAt(m, addr, map_virt_to_real(m, addr), to_be_bytes(value))

\* write_half storing the four bytes of the value as a u32
write_half_wide(m, addr, value) ==
    IF addr % 2 # 0 THEN WrErr("unaligned", m)
    ELSE WriteAt(m, addr, map_virt_to_real(m, addr), to_be_bytes(value))

write_half(m, addr, value) ==
    IF addr % 2 # 0 THEN WrErr("unaligned", m)
    ELSE WriteAt(m, addr, map_virt_to_real(m, addr), to_be_bytes16(value))

\* write_byte with the write flag not consulted
write_byte_unchecked(m, addr, value) ==
    WriteAtUnchecked(m, addr, map_virt_to_real(m, addr), << value >>)

write_byte(m, addr, value) ==
    WriteAt(m, addr, map_virt_to_real(m, addr), << value >>)

\* f extended (or overwritten) at key k with value v: HashMap::insert
Insert(f, k, v) == (k :> v) @@ f

\* alloc_page mapping the new virtual page to the newest frame there is
\* instead of pushing one
alloc_page_sharing(m, v_addr, write, exec_) ==
    LET real_id == IF m.pages = << >> THEN 0 ELSE Len(m.pages) - 1
        virt_id == VirtPage(v_addr)
    IN  IF Len(m.pages) >= 2 ^ (32 - PAGE_BITS)
        THEN [panic |-> TRUE, page |-> None, mem |-> m]
        ELSE IF virt_id \in DOMAIN m.table
             THEN [panic |-> FALSE, page |-> None, mem |-> m]
             ELSE [panic |-> FALSE, page |-> Some(real_id),
                   mem |-> [table |-> Insert(m.table, virt_id, real_id),
                            write |-> Insert(m.write, virt_id, write),
                            exec  |-> Insert(m.exec, virt_id, exec_),
                            pages |-> IF m.pages = << >> THEN << ZeroPage >>
                                      ELSE m.pages]]

\* alloc_page storing the flags before it looks the page up
alloc_page_reflagging(m, v_addr, write, exec_) ==
    LET real_id == Len(m.pages)
        virt_id == VirtPage(v_addr)
    IN  IF real_id >= 2 ^ (32 - PAGE_BITS)
        THEN [panic |-> TRUE, page |-> None, mem |-> m]
        ELSE IF virt_id \in DOMAIN m.table
             THEN [panic |-> FALSE, page |-> None,
                   mem |-> [m EXCEPT !.write = Insert(@, virt_id, write),
                                     !.exec = Insert(@, virt_id, exec_)]]
             ELSE [panic |-> FALSE, page |-> Some(real_id),
                   mem |-> [table |-> Insert(m.table, virt_id, real_id),
                            write |-> Insert(m.write, virt_id, write),
                            exec  |-> Insert(m.exec, virt_id, exec_),
                            pages |-> Append(m.pages, ZeroPage)]]

\* alloc_page: [panic], or [page |-> None/Some(real id), mem |-> Memory after]
alloc_page(m, v_addr, write, exec_) ==
    LET real_id == Len(m.pages)
        virt_id == VirtPage(v_addr)
    IN  IF real_id >= 2 ^ (32 - PAGE_BITS)
        THEN [panic |-> TRUE, page |-> None, mem |-> m]
        ELSE IF virt_id \in DOMAIN m.table
             THEN [panic |-> FALSE, page |-> None, mem |-> m]
             ELSE [panic |-> FALSE, page |-> Some(real_id),
                   mem |-> [table |-> Insert(m.table, virt_id, real_id),
                            write |-> Insert(m.write, virt_id, write),
                            exec  |-> Insert(m.exec, virt_id, exec_),
                            pages |-> Append(m.pages, ZeroPage)]]


\* the bytes of one chunk written from offset 0 of a zeroed page
PageOf(chunk) ==
    [o \in {i - 1 : i \in {j \in 1..Len(chunk) : chunk[j] # 0}} |-> chunk[o + 1]]

Min(a, b) == IF a < b THEN a ELSE b

\* alloc_data: [panic, mem, next]; oc: the build checks integer overflow
RECURSIVE alloc_data(_, _, _, _, _, _)
alloc_data(m, base_addr, data, write, exec_, oc) ==
    IF data = << >> THEN [panic |-> FALSE, mem |-> m, next |-> base_addr]
    ELSE LET a == alloc_page(m, base_addr, write, exec_)
             n == Min(Len(data), PAGE_SIZE)
         IN  IF a.panic \/ ~ a.page.some          \* .unwrap() of None
             THEN [panic |-> TRUE, mem |-> a.mem, next |-> base_addr]
             ELSE IF oc /\ AddOverflowsU32(base_addr, PAGE_SIZE)
             THEN [panic |-> TRUE, mem |-> a.mem, next |-> base_addr]
             ELSE alloc_data(SetFrame(a.mem, a.page.v, PageOf(SubSeq(data, 1, n))),
                             WrapAdd(base_addr, PAGE_SIZE),
                             SubSeq(data, n + 1, Len(data)), write, exec_, oc)

Zeros(n) == [i \in 1..n |-> 0]

\* iteration i (from 0) of the stack loop of new_from_object: r is [panic, mem]
StackIter(r, i) ==
    IF r.panic THEN r
    ELSE LET a == alloc_page(r.mem, WrapSub(STACK_START, i * PAGE_SIZE), TRUE, FALSE)
         IN  [panic |-> a.panic, mem |-> a.mem]

\* iterations lo..hi of the loop, in order
RECURSIVE StackIters(_, _, _)
StackIters(r, lo, hi) ==
    IF lo > hi THEN r
    ELSE IF lo = hi THEN StackIter(r, lo)
    ELSE LET mid == (lo + hi) \div 2
             l == StackIters(r, lo, mid)
         IN  IF l.panic THEN l ELSE StackIters(l, mid + 1, hi)

\* `while stack_remaining > 0 { alloc_page(..); .. -= PAGE_SIZE }`
AllocStack(m) ==
    StackIters([panic |-> FALSE, mem |-> m], 0, (STACK_SIZE \div PAGE_SIZE) - 1)

\* the next alloc_data of new_from_object, at the address the last returned
ThenData(r, data, write, exec_, oc) ==
    IF r.panic THEN r ELSE alloc_data(r.mem, r.next, data, write, exec_, oc)

\* the text's return value is dropped: .rdata is placed at DATA_START
ThenRdata(r, data, oc) ==
    IF r.panic THEN r ELSE alloc_data(r.mem, DATA_START, data, FALSE, FALSE, oc)

ThenStack(r) ==
    IF r.panic THEN [panic |-> TRUE, mem |-> MemoryNew] ELSE AllocStack(r.mem)

\* Memory::new_from_object: [panic, mem]
new_from_object(mod, oc) ==
    ThenStack(
      ThenData(
        ThenData(
          ThenData(
            ThenData(
              ThenRdata(alloc_data(MemoryNew, TEXT_START, mod.text, FALSE, TRUE, oc),
                        mod.rdata, oc),
              mod.data, TRUE, FALSE, oc),
            mod.sdata, TRUE, FALSE, oc),
          Zeros(mod.head.data[5]), TRUE, FALSE, oc),
        Zeros(mod.head.data[6]), TRUE, FALSE, oc))

-----------------------------------------------------------------------------
(* common/instruction.rs: the instruction codec                            *)

FUNCT_SLL == 0
FUNCT_SRL == 2
FUNCT_SRA == 3
FUNCT_SLLV == 4
FUNCT_SRLV == 6
FUNCT_SRAV == 7
FUNCT_JR == 8
FUNCT_JALR == 9
FUNCT_SYSCALL == 12
FUNCT_BREAK == 13
FUNCT_MFHI == 16
FUNCT_MTHI == 17
FUNCT_MFLO == 18
FUNCT_MTLO == 19
FUNCT_MULT == 24
FUNCT_MULTU == 25
FUNCT_DIV == 26
FUNCT_DIVU == 27
FUNCT_ADD == 32
FUNCT_ADDU == 33
FUNCT_SUB == 34
FUNCT_SUBU == 35
FUNCT_AND == 36
FUNCT_OR == 37
FUNCT_XOR == 38
FUNCT_NOR == 39
FUNCT_SLT == 42
FUNCT_SLTU == 43

OP_FUNCT == 0
OP_BCOND == 1
OP_J == 2
OP_JAL == 3
OP_BEQ == 4
OP_BNE == 5
OP_BLEZ == 6
OP_BGTZ == 7
OP_ADDI == 8
OP_ADDIU == 9
OP_SLTI == 10
OP_SLTIU == 11
OP_ANDI == 12
OP_ORI == 13
OP_XORI == 14
OP_LUI == 15
OP_LB == 32
OP_LH == 33
OP_LWL == 34
OP_LW == 35
OP_LBU == 36
OP_LHU == 37
OP_LWR == 38
OP_SB == 40
OP_SH == 41
OP_SWL == 42
OP_SW == 43
OP_SWR == 46

BCOND_BLTZ == 0
BCOND_BGEZ == 1
BCOND_BLTZAL == 16
BCOND_BGEZAL == 17

SYSCALL_PRINT_INT == 1
SYSCALL_PRINT_STRING == 4
SYSCALL_READ_INT == 5
SYSCALL_READ_STRING == 8
SYSCALL_SBRK == 9
SYSCALL_EXIT == 10
SYSCALL_PRINT_CHAR == 11
SYSCALL_READ_CHAR == 12
SYSCALL_OPEN == 13
SYSCALL_READ == 14
SYSCALL_WRITE == 15
SYSCALL_CLOSE == 16
SYSCALL_EXIT2 == 17

\* (val << idx) >> (32 - len)
\* extract_bits counting idx from the lowest order bit
extract_bits_low(val, idx, len) == Shr(Shl(val, 32 - idx - len), 32 - len)

extract_bits(val, idx, len) == Shr(Shl(val, idx), 32 - len)

RInst(rs, rt, rd, shamt, funct) ==
    [form |-> "R", rs |-> rs, rt |-> rt, rd |-> rd, shamt |-> shamt, funct |-> funct]
IInst(op, rs, rt, imm) == [form |-> "I", op |-> op, rs |-> rs, rt |-> rt, imm |-> imm]
JInst(op, imm) == [form |-> "J", op |-> op, imm |-> imm]

LegalFunct == {0} \cup (2..4) \cup (6..7) \cup {8, 9} \cup {12, 13}
              \cup (16..19) \cup (24..27) \cup (32..39) \cup (42..43)
IFormOps == (4..15) \cup (32..38) \cup (40..43) \cup {46}

\* impl TryFrom<u32> for Instruction
try_from(value) ==
    LET opcode == extract_bits(value, 0, 6)
        rs     == extract_bits(value, 6, 5)
        rt     == extract_bits(value, 11, 5)
        rd     == extract_bits(value, 16, 5)
        shamt  == extract_bits(value, 21, 5)
        funct  == extract_bits(value, 26, 6)
        imm_i  == extract_bits(value, 16, 16)
        imm_j  == extract_bits(value, 6, 26)
    IN  IF opcode = 0
        THEN IF funct \in LegalFunct
             THEN [ok |-> TRUE, inst |-> RInst(rs, rt, rd, shamt, funct)]
             ELSE [ok |-> FALSE, err |-> "Illegal funct"]
        ELSE IF opcode \in {2, 3}
        THEN [ok |-> TRUE, inst |-> JInst(opcode, imm_j)]
        ELSE IF opcode \in IFormOps
        THEN [ok |-> TRUE, inst |-> IInst(opcode, rs, rt, imm_i)]
        ELSE [ok |-> FALSE, err |-> "Illegal opcode"]

\* the encoder with the R form's shamt left out
encode_no_shamt(i) ==
    IF i.form = "R"
    THEN Or32(Or32(Or32(Shl(i.rs, 21), Shl(i.rt, 16)), Shl(i.rd, 11)), i.funct)
    ELSE IF i.form = "I"
    THEN Or32(Or32(Shl(i.op, 26), Shl(i.rs, 21)), Or32(Shl(i.rt, 16), i.imm))
    ELSE Or32(Shl(i.op, 26), i.imm)

\* impl From<Instruction> for u32
encode(i) ==
    IF i.form = "R"
    THEN Or32(Or32(Or32(Shl(i.rs, 21), Shl(i.rt, 16)),
                   Or32(Shl(i.rd, 11), Shl(i.shamt, 6))), i.funct)
    ELSE IF i.form = "I"
    THEN Or32(Or32(Shl(i.op, 26), Shl(i.rs, 21)), Or32(Shl(i.rt, 16), i.imm))
    ELSE Or32(Shl(i.op, 26), i.imm)


-----------------------------------------------------------------------------
(* 64-bit products and 32-bit division, as the Rust operators compute them *)

\* the base-256 digits of a u32, least significant first
Digits4(w) == [i \in 0..3 |-> to_be_bytes(w)[4 - i]]

\* column k of the schoolbook product of two 4-digit numbers
Col(x, y, k) ==
    LET t(i) == IF k - i \in 0..3 THEN x[i] * y[k - i] ELSE 0
    IN  t(0) + t(1) + t(2) + t(3)

\* the 8 digits of the product, least significant first
RECURSIVE MulDigits(_, _, _, _)
RECURSIVE MulCarry(_, _, _, _)
MulDigits(x, y, k, carry) ==
    IF k = 8 THEN << >> ELSE MulCarry(x, y, k, Col(x, y, k) + carry)
MulCarry(x, y, k, t) == << t % 256 >> \o MulDigits(x, y, k + 1, t \div 256)

FromDigits(d) ==
    [hi |-> Word(d[8] * 256 + d[7], d[6] * 256 + d[5]),
     lo |-> Word(d[4] * 256 + d[3], d[2] * 256 + d[1])]

\* the unsigned 64-bit product of two u32: [hi, lo]
MulU64(a, b) == FromDigits(MulDigits(Digits4(a), Digits4(b), 0, 0))

\* the signed product from the unsigned one u of the same bit patterns
SignFix(a, b, u) ==
    LET h1 == IF a < 0 THEN WrapSub(u.hi, b) ELSE u.hi
    IN  [hi |-> IF b < 0 THEN WrapSub(h1, a) ELSE h1, lo |-> u.lo]

\* the signed 64-bit product of two i32: [hi, lo]
MulS64(a, b) == SignFix(a, b, MulU64(a, b))

\* i32 `/` and `%` (truncating), b # 0 and not (a = MIN and b = -1)
DivS(a, b) ==
    IF b = I32Min
    THEN IF a = I32Min THEN [q |-> 1, r |-> 0] ELSE [q |-> 0, r |-> a]
    ELSE LET bp == IF b < 0 THEN 0 - b ELSE b
             fq == a \div bp
             fr == a % bp
             tq == IF a >= 0 \/ fr = 0 THEN fq ELSE fq + 1
             tr == IF a >= 0 \/ fr = 0 THEN fr ELSE fr - bp
         IN  [q |-> IF b < 0 THEN 0 - tq ELSE tq, r |-> tr]

\* u32 `/` and `%`, b # 0
DivU(a, b) ==
    IF b < 0
    THEN IF LtU(a, b) THEN [q |-> 0, r |-> a] ELSE [q |-> 1, r |-> WrapSub(a, b)]
    ELSE IF a >= 0 THEN [q |-> a \div b, r |-> a % b]
    ELSE IF b = 1 THEN [q |-> a, r |-> 0]
    ELSE LET h   == Shr(a, 1)
             lsb == a % 2
             qh  == h \div b
             rh  == h % b
             ge  == rh >= b - rh - lsb
         IN  [q |-> 2 * qh + (IF ge THEN 1 ELSE 0),
              r |-> IF ge THEN rh - (b - rh - lsb) ELSE 2 * rh + lsb]

-----------------------------------------------------------------------------
(* sim/exec.rs: Exec                                                       *)

ZERO == 0
V0 == 2
V1 == 3
A0 == 4
A1 == 5
A2 == 6
K0 == 26
K1 == 27
GP == 28
SP == 29
FP == 30
RA == 31

Regs == 0..31

ExnSyscall == [kind |-> "Syscall"]
ExnOverflow == [kind |-> "Overflow"]
ExnDivideByZero == [kind |-> "DivideByZero"]
ExnMemory(err) == [kind |-> "Memory", err |-> err]
ExnExit(code) == [kind |-> "Exit", code |-> code]

Reg(e, r) == e.ctx.reg[r]
SetReg(e, r, v) == [e EXCEPT !.ctx.reg[r] = v]
SetPc(e, v) == [e EXCEPT !.ctx.pc = v]
SetExn(e, x) == [e EXCEPT !.exn = Some(x)]

\* the outcome of executing one instruction: the Exec afterwards, whether the
\* process panicked, the exceptions raised or recorded on the way, in order,
\* the input left, and the exception the instruction hands to raise_exn
Res(e, inp, raised) ==
    [e |-> e, panic |-> FALSE, inp |-> inp, raised |-> raised, raise |-> None]
Panic(e, inp, raised) ==
    [e |-> e, panic |-> TRUE, inp |-> inp, raised |-> raised, raise |-> None]
Raise(e, exn, inp) ==
    [e |-> e, panic |-> FALSE, inp |-> inp, raised |-> << >>, raise |-> Some(exn)]

\* Exec::read_string: [panic, ok, err, s]
RECURSIVE read_string(_, _, _)
RECURSIVE ReadStringFrom(_, _, _, _)
read_string(m, addr, oc) == ReadStringFrom(m, addr, read_byte(m, addr), oc)

StrCons(v, r) == IF r.ok THEN [r EXCEPT !.s = << v >> \o r.s] ELSE r

ReadStringFrom(m, addr, b, oc) ==
    IF ~ b.ok THEN [panic |-> FALSE, ok |-> FALSE, err |-> b.err, s |-> << >>]
    ELSE IF b.val = 0 THEN [panic |-> FALSE, ok |-> TRUE, err |-> "", s |-> << >>]
    ELSE IF oc /\ AddOverflowsU32(addr, 1)
    THEN [panic |-> TRUE, ok |-> FALSE, err |-> "", s |-> << >>]
    ELSE StrCons(b.val, read_string(m, WrapAdd(addr, 1), oc))

\* stdin().read_line: the bytes up to and including the first '\n' (or all)
RECURSIVE LineLen(_)
LineLen(s) == IF s = << >> THEN 0
              ELSE IF Head(s) = 10 THEN 1 ELSE 1 + LineLen(Tail(s))
SplitAt(s, n) == [line |-> SubSeq(s, 1, n), rest |-> SubSeq(s, n + 1, Len(s))]
read_line(s) == SplitAt(s, LineLen(s))

IsDigit(b) == b \in 48..57
RECURSIVE TakeDigits(_)
TakeDigits(s) == IF s = << >> \/ ~ IsDigit(Head(s)) THEN << >>
                 ELSE << Head(s) >> \o TakeDigits(Tail(s))

\* str::parse::<i32> on a string of digits: None when empty or out of range
RECURSIVE ParseAcc(_, _)
ParseAcc(acc, s) ==
    IF s = << >> THEN Some(acc)
    ELSE IF acc > (I32Max - (Head(s) - 48)) \div 10 THEN None
    ELSE ParseAcc(acc * 10 + (Head(s) - 48), Tail(s))
parse_i32(s) == IF s = << >> THEN None ELSE ParseAcc(0, s)

\* the host's files: name |-> content
HostFiles == [n \in {<< 97 >>} |-> << 104, 105 >>]

\* the read_string syscall's loop: [exn, panic, mem, read, buf_addr]
RECURSIVE ReadStringLoop(_, _, _, _, _)
RECURSIVE ReadStringWrote(_, _, _, _, _, _)
ReadStringLoop(m, buf_addr, bytes, read, oc) ==
    IF bytes = << >>
    THEN [panic |-> FALSE, exn |-> None, mem |-> m, read |-> read, buf_addr |-> buf_addr]
    ELSE ReadStringWrote(m, buf_addr, bytes, read,
                         write_byte(m, buf_addr, Head(bytes)), oc)

ReadStringWrote(m, buf_addr, bytes, read, w, oc) ==
    IF ~ w.ok
    THEN [panic |-> FALSE, exn |-> Some(ExnMemory(w.err)), mem |-> m,
          read |-> read, buf_addr |-> buf_addr]
    ELSE IF oc /\ AddOverflowsU32(buf_addr, 1)
    THEN [panic |-> TRUE, exn |-> None, mem |-> w.mem,
          read |-> read + 1, buf_addr |-> buf_addr]
    ELSE ReadStringLoop(w.mem, WrapAdd(buf_addr, 1), Tail(bytes), read + 1, oc)

\* the sbrk loop: new_pages calls of alloc_page: [panic, e]
RECURSIVE SbrkLoop(_, _, _)
RECURSIVE SbrkAlloc(_, _, _, _)
SbrkLoop(e, n, oc) ==
    IF n = 0 THEN [panic |-> FALSE, e |-> e]
    ELSE SbrkAlloc(e, n, alloc_page(e.mem, e.heap_next_page, TRUE, FALSE), oc)

SbrkAlloc(e, n, a, oc) ==
    IF a.panic \/ (oc /\ AddOverflowsU32(e.heap_next_page, PAGE_SIZE))
    THEN [panic |-> TRUE, e |-> e]
    ELSE SbrkLoop([e EXCEPT !.mem = a.mem,
                            !.heap_next_page = WrapAdd(@, PAGE_SIZE)],
                  n - 1, oc)

\* the write syscall's gather loop: [panic, exn, buf]
RECURSIVE GatherLoop(_, _, _, _, _)
RECURSIVE GatherRead(_, _, _, _, _, _)
GatherLoop(m, a1, off, n, oc) ==
    IF off = n THEN [panic |-> FALSE, exn |-> None, buf |-> << >>]
    ELSE IF oc /\ AddOverflowsU32(a1, off)
    THEN [panic |-> TRUE, exn |-> None, buf |-> << >>]
    ELSE GatherRead(m, a1, off, n, read_byte(m, WrapAdd(a1, off)), oc)

BufCons(v, r) == [r EXCEPT !.buf = << v >> \o r.buf]

GatherRead(m, a1, off, n, b, oc) ==
    IF ~ b.ok
    THEN [panic |-> FALSE, exn |-> Some(ExnMemory(b.err)), buf |-> << >>]
    ELSE BufCons(b.val, GatherLoop(m, a1, off + 1, n, oc))

MinusOne == Word(65535, 65535)      \* -1i32 as u32

\* print_string, given the string read
SysPrintString(e, inp, s) ==
    IF s.panic THEN Panic(e, inp, << >>)
    ELSE IF s.ok THEN Res(e, inp, << >>)
    ELSE Res(SetExn(e, ExnMemory(s.err)), inp, << "Memory" >>)

\* read_int, given the line read and the number parsed from it
SysReadInt(e, rest, i) ==
    IF i.some
    THEN Res(SetReg(SetReg(e, V0, i.v), V1, 0), rest, << >>)
    ELSE Res(SetReg(e, V1, 1), rest, << >>)

\* read_string after its loop lp and the write w of the terminating NUL
SysReadStringEnd(e1, rest, lp, w) ==
    LET e2 == [e1 EXCEPT !.mem = w.mem]
        e3 == IF ~ w.ok THEN SetExn(e2, ExnMemory(w.err))
              ELSE IF lp.exn.some THEN [e2 EXCEPT !.exn = lp.exn]
              ELSE e2
    IN  Res(IF lp.read = 0 THEN SetReg(e3, V0, 0) ELSE e3, rest,
            IF ~ w.ok \/ lp.exn.some THEN << "Memory" >> ELSE << >>)

SysReadStringLoop(e1, rest, lp) ==
    IF lp.panic THEN Panic(e1, rest, << >>)
    ELSE SysReadStringEnd(e1, rest, lp, write_byte(lp.mem, lp.buf_addr, 0))

\* read_string(buf, len), given the line read l
SysReadString(e, a0, len, l, oc) ==
    \* bytes[..(len - 1) as usize]
    IF len = 0 \/ LtU(Len(l.line), WrapSub(len, 1))
    THEN Panic(SetReg(e, V0, a0), l.rest, << >>)
    ELSE SysReadStringLoop(SetReg(e, V0, a0), l.rest,
             ReadStringLoop(e.mem, a0, SubSeq(l.line, 1, len - 1), 0, oc))

SysSbrkEnd(inp, new_pages, lp) ==
    IF lp.panic THEN Panic(lp.e, inp, << >>)
    ELSE Res([lp.e EXCEPT
                 !.heap_size = WrapAdd(@, Shl(new_pages, PAGE_BITS)),
                 !.ctx.reg[V1] = WrapAdd(lp.e.heap_size, Shl(new_pages, PAGE_BITS))],
             inp, << >>)

SysSbrkPages(e1, inp, new_pages, oc) ==
    SysSbrkEnd(inp, new_pages, SbrkLoop(e1, new_pages, oc))

\* sbrk(amt)
SysSbrk(e, inp, a0, oc) ==
    IF a0 # 0
    THEN IF oc /\ AddOverflowsU32(a0, PAGE_SIZE)
         THEN Panic(SetReg(e, V0, e.heap_start), inp, << >>)
         ELSE SysSbrkPages(SetReg(e, V0, e.heap_start), inp,
                           Shr(WrapSub(WrapAdd(a0, PAGE_SIZE), 1), PAGE_BITS), oc)
    ELSE Res(SetReg(SetReg(e, V0, e.heap_start), V1, e.heap_size), inp, << >>)

\* open that hands out next_fd without advancing it
SysOpenNoAdvance(e, inp, a1, name) ==
    IF name.panic THEN Panic(e, inp, << >>)
    ELSE IF ~ name.ok
    THEN Res(SetExn(e, ExnMemory(name.err)), inp, << "Memory" >>)
    ELSE IF name.s \in DOMAIN HostFiles
    THEN Res([SetReg(e, V0, e.next_fd) EXCEPT
                 !.files = Insert(@, e.next_fd,
                     [name |-> name.s,
                      read |-> a1 = 0 \/ And32(a1, 2) # 0,
                      write |-> And32(a1, 1) # 0 \/ And32(a1, 2) # 0,
                      written |-> << >>])],
             inp, << >>)
    ELSE Res(SetReg(e, V0, MinusOne), inp, << >>)

\* open(name, flags, mode), given the name read
SysOpen(e, inp, a1, name) ==
    IF name.panic THEN Panic(e, inp, << >>)
    ELSE IF ~ name.ok
    THEN Res(SetExn(e, ExnMemory(name.err)), inp, << "Memory" >>)
    ELSE IF name.s \in DOMAIN HostFiles
    THEN Res([SetReg(e, V0, e.next_fd) EXCEPT
                 !.files = Insert(@, e.next_fd,
                     [name |-> name.s,
                      read |-> a1 = 0 \/ And32(a1, 2) # 0,
                      write |-> And32(a1, 1) # 0 \/ And32(a1, 2) # 0,
                      written |-> << >>]),
                 !.next_fd = WrapAdd(@, 1)],
             inp, << >>)
    ELSE Res(SetReg(e, V0, MinusOne), inp, << >>)

\* write(fd, buf, len) on an open descriptor, given the bytes gathered
SysWrite(e, inp, a0, g) ==
    IF g.panic THEN Panic(e, inp, << >>)
    ELSE IF e.files[a0].write
    THEN Res([e EXCEPT !.ctx.reg[V0] = Len(g.buf),
                       !.exn = IF g.exn.some THEN g.exn ELSE @,
                       !.files[a0].written = @ \o g.buf],
             inp, IF g.exn.some THEN << "Memory" >> ELSE << >>)
    ELSE Res([e EXCEPT !.ctx.reg[V0] = MinusOne,
                       !.exn = IF g.exn.some THEN g.exn ELSE @],
             inp, IF g.exn.some THEN << "Memory" >> ELSE << >>)

\* Exec::syscall; inp is standard input, the result's inp what is left of it
syscall(e, inp, oc) ==
    LET v0 == Reg(e, V0)
        a0 == Reg(e, A0)
        a1 == Reg(e, A1)
        a2 == Reg(e, A2)
    IN  CASE v0 = SYSCALL_PRINT_INT -> Res(e, inp, << >>)
          [] v0 = SYSCALL_PRINT_STRING ->
                SysPrintString(e, inp, read_string(e.mem, a0, oc))
          [] v0 = SYSCALL_READ_INT ->
                SysReadInt(e, read_line(inp).rest,
                           parse_i32(TakeDigits(read_line(inp).line)))
          [] v0 = SYSCALL_READ_STRING ->
                SysReadString(e, a0, a1, read_line(inp), oc)
          [] v0 = SYSCALL_SBRK -> SysSbrk(e, inp, a0, oc)
          [] v0 = SYSCALL_EXIT -> Res(SetExn(e, ExnExit(0)), inp, << "Exit" >>)
          [] v0 = SYSCALL_PRINT_CHAR -> Res(e, inp, << >>)
          [] v0 = SYSCALL_READ_CHAR ->
                IF inp = << >> THEN Res(SetReg(e, A0, 0), inp, << >>)
                ELSE Res(SetReg(e, A0, Head(inp)), Tail(inp), << >>)
          [] v0 = SYSCALL_OPEN ->
                SysOpen(e, inp, a1, read_string(e.mem, a0, oc))
          [] v0 = SYSCALL_READ ->
                IF a0 \in DOMAIN e.files
                THEN \* f.read into the empty slice of Vec::with_capacity
                     IF e.files[a0].read
                     THEN Res(SetReg(e, V0, 0), inp, << >>)
                     ELSE Res(SetReg(e, V0, MinusOne), inp, << >>)
                ELSE Res(SetReg(e, V0, MinusOne), inp, << >>)
          [] v0 = SYSCALL_WRITE ->
                IF a0 \in DOMAIN e.files
                THEN SysWrite(e, inp, a0, GatherLoop(e.mem, a1, 0, a2, oc))
                ELSE Res(e, inp, << >>)
          [] v0 = SYSCALL_CLOSE ->
                Res([e EXCEPT !.files = [fd \in (DOMAIN @) \ {a0} |-> @[fd]]],
                    inp, << >>)
          [] v0 = SYSCALL_EXIT2 -> Res(SetExn(e, ExnExit(a0)), inp, << "Exit" >>)
          [] OTHER -> Panic(e, inp, << >>)          \* unreachable!()

MASK == Word(32768, 98)             \* 0b1000...01100010

\* the clobber shifting before it tests the low bit
ClobberShiftFirst(w) == IF And32(Shr(w, 1), 1) > 0 THEN Xor32(Shr(w, 1), MASK) ELSE Shr(w, 1)

\* one kernel register's update in raise_exn
Clobber(w) == Shr(IF And32(w, 1) > 0 THEN Xor32(w, MASK) ELSE w, 1)

\* the k0/k1 update at the head of raise_exn
KernClobber(e) ==
    IF ~ e.args.no_kern_clobber
    THEN [e EXCEPT !.ctx.reg[K0] = Clobber(@), !.ctx.reg[K1] = Clobber(@)]
    ELSE e

Raised(kind, r) == [r EXCEPT !.raised = << kind >> \o @]

\* Exec::raise_exn (Syscall and Break both arrive as ExnSyscall)
raise_exn(e, exn, inp, oc) ==
    IF exn.kind = "Syscall"
    THEN Raised("Syscall", syscall(KernClobber(e), inp, oc))
    ELSE Res(SetExn(KernClobber(e), exn), inp, << exn.kind >>)

\* a taken branch: pc = (pc as i32 + ((imm as i16 as i32) << 2)) as u32
Branch(e, imm, inp, oc) ==
    IF oc /\ AddOverflowsI32(e.ctx.pc, SignExt16(imm) * 4) THEN Panic(e, inp, << >>)
    ELSE Res(SetPc(e, WrapAdd(e.ctx.pc, SignExt16(imm) * 4)), inp, << >>)

\* (reg[rs] as i32 + (imm as i16 as i32)) as u32: [panic, a]
EffAddr(e, rs, imm, oc) ==
    [panic |-> oc /\ AddOverflowsI32(Reg(e, rs), SignExt16(imm)),
     a |-> WrapAdd(Reg(e, rs), SignExt16(imm))]

\* `as i8 as i32`, `as i16 as i32`, or `as u32` of a loaded value
Extend(ext, v) ==
    CASE ext = "i8" -> SignExt8(v)
      [] ext = "i16" -> SignExt16(v)
      [] OTHER -> v

\* a load, given the result r of the read
Load(e, i, r, ext, inp, oc) ==
    IF EffAddr(e, i.rs, i.imm, oc).panic THEN Panic(e, inp, << >>)
    ELSE IF r.ok THEN Res(SetReg(e, i.rt, Extend(ext, r.val)), inp, << >>)
    ELSE Raise(e, ExnMemory(r.err), inp)

\* a store, given the result w of the write
Store(e, i, w, inp, oc) ==
    IF EffAddr(e, i.rs, i.imm, oc).panic THEN Panic(e, inp, << >>)
    ELSE IF w.ok THEN Res([e EXCEPT !.mem = w.mem], inp, << >>)
    ELSE Raise(e, ExnMemory(w.err), inp)

\* hi = (res >> 32) as u32; lo = (res & 0x0000FFFF) as u32
SetHiLo(e, res, inp) ==
    Res([e EXCEPT !.ctx.hi = res.hi, !.ctx.lo = And32(res.lo, 65535)], inp, << >>)

\* lo = a / b; hi = a % b
SetQuotRem(e, d, inp) ==
    Res([e EXCEPT !.ctx.lo = d.q, !.ctx.hi = d.r], inp, << >>)

\* the arms of `Instruction::R { .. } => match funct`
exec_R(e, i, inp, oc) ==
    LET rs == Reg(e, i.rs)
        rt == Reg(e, i.rt)
        f  == i.funct
        wr(v) == Res(SetReg(e, i.rd, v), inp, << >>)
    IN  CASE f = FUNCT_SLL  -> wr(Shl(rt, i.shamt))
          [] f = FUNCT_SRL  -> wr(Shr(rt, i.shamt))
          [] f = FUNCT_SRA  -> wr(Sra(rt, i.shamt))
          [] f = FUNCT_SLLV -> wr(Shl(rt, And32(rs, 31)))
          [] f = FUNCT_SRLV -> wr(Shr(rt, And32(rs, 31)))
          [] f = FUNCT_SRAV -> wr(Sra(rt, And32(rs, 31)))
          [] f = FUNCT_JR   -> Res(SetPc(e, rs), inp, << >>)
          [] f = FUNCT_JALR ->
                Res(SetPc(SetReg(e, i.rd, e.ctx.pc),
                          Reg(SetReg(e, i.rd, e.ctx.pc), i.rs)), inp, << >>)
          [] f = FUNCT_SYSCALL -> Raise(e, ExnSyscall, inp)
          [] f = FUNCT_BREAK   -> Raise(e, ExnSyscall, inp)
          [] f = FUNCT_MFHI -> wr(e.ctx.hi)
          [] f = FUNCT_MTHI -> Res([e EXCEPT !.ctx.hi = rs], inp, << >>)
          [] f = FUNCT_MFLO -> wr(e.ctx.lo)
          [] f = FUNCT_MTLO -> Res([e EXCEPT !.ctx.lo = rs], inp, << >>)
          [] f = FUNCT_MULT -> SetHiLo(e, MulS64(rs, rt), inp)
          [] f = FUNCT_MULTU -> SetHiLo(e, MulU64(rs, rt), inp)
          [] f = FUNCT_DIV ->
                IF rt = 0 THEN Raise(e, ExnDivideByZero, inp)
                ELSE IF rs = I32Min /\ rt = -1 THEN Panic(e, inp, << >>)
                ELSE SetQuotRem(e, DivS(rs, rt), inp)
          [] f = FUNCT_DIVU ->
                IF rt = 0 THEN Raise(e, ExnDivideByZero, inp)
                ELSE SetQuotRem(e, DivU(rs, rt), inp)
          [] f = FUNCT_ADD ->
                IF AddOverflowsI32(rs, rt) THEN Raise(e, ExnOverflow, inp)
                ELSE wr(rs + rt)
          [] f = FUNCT_ADDU -> wr(WrapAdd(rs, rt))
          [] f = FUNCT_SUB ->
                IF SubOverflowsI32(rs, rt) THEN Raise(e, ExnOverflow, inp)
                ELSE wr(rs - rt)
          [] f = FUNCT_SUBU -> wr(WrapSub(rs, rt))
          [] f = FUNCT_AND  -> wr(And32(rs, rt))
          [] f = FUNCT_OR   -> wr(Or32(rs, rt))
          [] f = FUNCT_XOR  -> wr(Xor32(rs, rt))
          [] f = FUNCT_NOR  -> wr(Not32(Or32(rs, rt)))
          [] f = FUNCT_SLT  -> wr(IF rs < rt THEN 1 ELSE 0)
          [] f = FUNCT_SLTU -> wr(IF LtU(rs, rt) THEN 1 ELSE 0)
          [] OTHER -> Panic(e, inp, << >>)          \* unreachable!()

\* the arms of `Instruction::I { .. } => match op`, a the effective address
exec_I_at(e, i, a, inp, oc) ==
    LET rs  == Reg(e, i.rs)
        rt  == Reg(e, i.rt)
        op  == i.op
        imm == i.imm
        wr(v) == Res(SetReg(e, i.rt, v), inp, << >>)
        br(c) == IF c THEN Branch(e, imm, inp, oc) ELSE Res(e, inp, << >>)
        link(c) == IF c THEN Branch(SetReg(e, RA, e.ctx.pc), imm, inp, oc)
                   ELSE Res(e, inp, << >>)
    IN  CASE op = OP_BCOND ->
                CASE i.rt = BCOND_BLTZ   -> br(rs < 0)
                  [] i.rt = BCOND_BGEZ   -> br(rs >= 0)
                  [] i.rt = BCOND_BLTZAL -> link(rs < 0)
                  [] i.rt = BCOND_BGEZAL -> link(rs >= 0)
                  [] OTHER -> Panic(e, inp, << >>)
          [] op = OP_BEQ  -> br(rs = rt)
          [] op = OP_BNE  -> br(rs # rt)
          [] op = OP_BLEZ -> br(rs <= 0)
          [] op = OP_BGTZ -> br(rs # 0)             \* u32 > 0
          [] op = OP_ADDI ->
                IF AddOverflowsI32(rs, SignExt16(imm))
                THEN Raise(e, ExnOverflow, inp)
                ELSE wr(rs + SignExt16(imm))
          [] op = OP_ADDIU -> wr(WrapAdd(rs, SignExt16(imm)))
          [] op = OP_SLTI  -> wr(IF rs < SignExt16(imm) THEN 1 ELSE 0)
          [] op = OP_SLTIU ->
                wr(IF ~ (And32(imm, 32768) > 0) /\ LtU(rs, imm) THEN 1 ELSE 0)
          [] op = OP_ANDI -> wr(And32(rs, imm))
          [] op = OP_ORI  -> wr(Or32(rs, imm))
          [] op = OP_XORI -> wr(Xor32(rs, imm))
          [] op = OP_LUI  -> wr(Shl(imm, 16))
          [] op = OP_LB  -> Load(e, i, read_byte(e.mem, a), "i8", inp, oc)
          [] op = OP_LH  -> Load(e, i, read_half(e.mem, a), "i16", inp, oc)
          [] op = OP_LW  -> Load(e, i, read_word(e.mem, a), "u32", inp, oc)
          [] op = OP_LBU -> Load(e, i, read_byte(e.mem, a), "u32", inp, oc)
          [] op = OP_LHU -> Load(e, i, read_half(e.mem, a), "u32", inp, oc)
          [] op = OP_SB -> Store(e, i, write_byte(e.mem, a, rt % 256), inp, oc)
          [] op = OP_SH -> Store(e, i, write_half(e.mem, a, Lo16(rt)), inp, oc)
          [] op = OP_SW -> Store(e, i, write_word(e.mem, a, rt), inp, oc)
          [] OTHER -> Panic(e, inp, << >>)   \* todo!() (LWL, LWR, SWL, SWR), unreachable!()

exec_I(e, i, inp, oc) == exec_I_at(e, i, EffAddr(e, i.rs, i.imm, oc).a, inp, oc)

\* the target (pc & 0xF0000000) | (imm << 2) of J and JAL
JumpTarget(e, i) == Or32(And32(e.ctx.pc, Word(61440, 0)), Shl(i.imm, 2))

\* pc = target - 4, on u32
JumpTo(e1, t, inp, oc) ==
    IF oc /\ LtU(t, 4) THEN Panic(e1, inp, << >>)
    ELSE Res(SetPc(e1, WrapSub(t, 4)), inp, << >>)

\* the arms of `Instruction::J { .. } => match op`
exec_J(e, i, inp, oc) ==
    IF i.op = OP_J THEN JumpTo(e, JumpTarget(e, i), inp, oc)
    ELSE IF i.op = OP_JAL
    THEN JumpTo(SetReg(e, RA, e.ctx.pc), JumpTarget(e, i), inp, oc)
    ELSE Panic(e, inp, << >>)

\* the exception an instruction raises dropped instead of entering raise_exn
TrapDropped(x, oc) ==
    IF x.raise.some THEN Res(x.e, x.inp, << >>) ELSE x

\* the call of raise_exn an arm makes
Trap(x, oc) ==
    IF x.raise.some THEN raise_exn(x.e, x.raise.v, x.inp, oc) ELSE x

\* Exec::exec_instruction
exec_instruction(e, i, inp, oc) ==
    Trap(IF i.form = "R" THEN exec_R(e, i, inp, oc)
         ELSE IF i.form = "I" THEN exec_I(e, i, inp, oc)
         ELSE exec_J(e, i, inp, oc), oc)

NoInst == [form |-> "none"]

\* what a call of step did: the Exec afterwards, what it returned, the input
\* left, the word, instruction and traps it went through, and the pc that
\* exec_instruction left (pcx)
Out(e, ret, inp, inst, raised, word, pcx) ==
    [e |-> e, ret |-> ret, panic |-> ret = "Panic", inp |-> inp,
     inst |-> inst, raised |-> raised, word |-> word, pcx |-> pcx]

\* step after exec_instruction gave x
StepExecuted(x, inst, word, oc) ==
    IF x.panic THEN Out(x.e, "Panic", x.inp, inst, x.raised, word, x.e.ctx.pc)
    ELSE IF x.e.exn.some
    THEN Out(x.e, "ErrException", x.inp, inst, x.raised, word, x.e.ctx.pc)
    ELSE IF oc /\ AddOverflowsU32(x.e.ctx.pc, 4)
    THEN Out(SetReg(x.e, ZERO, 0), "Panic", x.inp, inst, x.raised, word, x.e.ctx.pc)
    ELSE Out([x.e EXCEPT !.ctx.reg[ZERO] = 0, !.ctx.pc = WrapAdd(@, 4)], "Ok",
             x.inp, inst, x.raised, word, x.e.ctx.pc)

\* step after `i.try_into()` gave d
StepDecoded(e, d, word, inp, oc) ==
    IF ~ d.ok THEN Out(e, "ErrDecode", inp, NoInst, << >>, word, e.ctx.pc)
    ELSE StepExecuted(exec_instruction(e, d.inst, inp, oc), d.inst, word, oc)

\* step after `self.mem.read_word(self.ctx.pc)` gave w
StepFetched(e, w, inp, oc) ==
    IF ~ w.ok THEN Out(e, "ErrFetch", inp, NoInst, << >>, 0, e.ctx.pc)
    ELSE StepDecoded(e, try_from(w.val), w.val, inp, oc)

\* Exec::step: ret is Ok, ErrFetch, ErrDecode, ErrException, or Panic
step(e, inp, oc) == StepFetched(e, read_word(e.mem, e.ctx.pc), inp, oc)

\* Exec::new leaving the stack pointer at STACK_START
ExecNewSpAtTop(mod, args, m) ==
    LET reg0 == [r \in Regs |-> 0]
        reg1 == [reg0 EXCEPT ![SP] = STACK_START, ![FP] = STACK_START,
                             ![GP] = DATA_START]
        reg2 == IF ~ args.no_kern_clobber
                THEN [reg1 EXCEPT ![K0] = 0, ![K1] = MinusOne]
                ELSE reg1
    IN  IF And32(mod.head.flags, 3) = 0 THEN [panic |-> FALSE, exec |-> None]
        ELSE IF m.panic THEN [panic |-> TRUE, exec |-> None]
        ELSE [panic |-> FALSE,
              exec |-> Some([ctx |-> [reg |-> reg2, pc |-> mod.head.entry,
                                      hi |-> 0, lo |-> 0],
                             mem |-> m.mem,
                             heap_start |-> 0, heap_size |-> 0, heap_next_page |-> 0,
                             exn |-> None, files |-> << >>, next_fd |-> 3,
                             args |-> args])]

\* Exec::new, given the result m of Memory::new_from_object: None when the
\* module has no entry point; [panic] when the image cannot be built
ExecNewWith(mod, args, m) ==
    LET reg0 == [r \in Regs |-> 0]
        reg1 == [reg0 EXCEPT ![SP] = WrapSub(STACK_START, 4096),
                             ![FP] = STACK_START,
                             ![GP] = DATA_START]
        reg2 == IF ~ args.no_kern_clobber
                THEN [reg1 EXCEPT ![K0] = 0, ![K1] = MinusOne]
                ELSE reg1
    IN  IF And32(mod.head.flags, 3) = 0 THEN [panic |-> FALSE, exec |-> None]
        ELSE IF m.panic THEN [panic |-> TRUE, exec |-> None]
        ELSE [panic |-> FALSE,
              exec |-> Some([ctx |-> [reg |-> reg2, pc |-> mod.head.entry,
                                      hi |-> 0, lo |-> 0],
                             mem |-> m.mem,
                             heap_start |-> 0, heap_size |-> 0, heap_next_page |-> 0,
                             exn |-> None, files |-> << >>, next_fd |-> 3,
                             args |-> args])]

\* Exec::new
ExecNew(mod, args, oc) == ExecNewWith(mod, args, new_from_object(mod, oc))

\* Exec::new_empty
ExecEmpty ==
    [ctx |-> [reg |-> [r \in Regs |-> 0], pc |-> 0, hi |-> 0, lo |-> 0],
     mem |-> MemoryNew, heap_start |-> 0, heap_size |-> 0, heap_next_page |-> 0,
     exn |-> None, files |-> << >>, next_fd |-> 3,
     args |-> [no_kern_clobber |-> FALSE]]

-----------------------------------------------------------------------------
(* The programs the simulator is run on.  Each is assembled with encode    *)
(* into the .text of an executable ObjectModule.                           *)

T0 == 8
T1 == 9
T2 == 10

R_(rs, rt, rd, shamt, funct) == encode(RInst(rs, rt, rd, shamt, funct))
I_(op, rs, rt, imm) == encode(IInst(op, rs, rt, imm))
J_(op, imm) == encode(JInst(op, imm))

\* lui r, hi(v); ori r, r, lo(v)
Li(r, v) == << I_(OP_LUI, 0, r, Hi16(v)), I_(OP_ORI, r, r, Lo16(v)) >>

\* addiu r, $zero, n
Lis(r, n) == << I_(OP_ADDIU, ZERO, r, n) >>

Mark == << I_(OP_ADDIU, T2, T2, 1) >>
SyscallWord == R_(0, 0, 0, 0, FUNCT_SYSCALL)
BreakWord == R_(0, 0, 0, 0, FUNCT_BREAK)

\* li $v0, 10; syscall
Exit == Lis(V0, SYSCALL_EXIT) \o << SyscallWord >>

RECURSIVE WordsToBytes(_)
WordsToBytes(ws) ==
    IF ws = << >> THEN << >> ELSE to_be_bytes(Head(ws)) \o WordsToBytes(Tail(ws))

DataBytes == << 129, 2, 131, 4 >>

\* an executable module with the given .text words and .data bytes
ModuleOf(ws, data) ==
    [head  |-> [flags |-> 1, entry |-> TEXT_START,
                data |-> << 4 * Len(ws), 0, Len(data), 0, 0, 0, 0, 0, 0, 0 >>],
     text  |-> WordsToBytes(ws), rdata |-> << >>, data |-> data, sdata |-> << >>]

Scenario(ws, inp) == [module |-> ModuleOf(ws, DataBytes), stdin |-> inp]

StackAddr == Word(32767, 57344)     \* 0x7fffe000, in the topmost stack page
Unmapped  == Word(8192, 0)          \* 0x20000000, in no page of the image
Pattern   == Word(33154, 33668)     \* 0x81828384

DestRegs == {ZERO, T2, K1}

\* add/addu/sub/subu rd, $t0, $t1
ArithProgs ==
    {Li(T0, a) \o Li(T1, b) \o << R_(T0, T1, rd, 0, f) >> \o Mark \o Exit :
        a \in {1, I32Max, I32Min}, b \in {1, MinusOne}, rd \in DestRegs,
        f \in {FUNCT_ADD, FUNCT_ADDU, FUNCT_SUB, FUNCT_SUBU}}

\* addi/addiu rt, $t0, imm
ImmProgs ==
    {Li(T0, a) \o << I_(op, T0, rt, imm) >> \o Mark \o Exit :
        a \in {1, I32Max, I32Min}, imm \in {1, 65535}, rt \in DestRegs,
        op \in {OP_ADDI, OP_ADDIU}}

\* mthi $t0; mtlo $t2; div/divu $t0, $t1
DivProgs ==
    {Li(T0, a) \o Li(T1, b) \o Mark
        \o << R_(T0, 0, 0, 0, FUNCT_MTHI), R_(T2, 0, 0, 0, FUNCT_MTLO),
              R_(T0, T1, 0, 0, f) >> \o Mark \o Exit :
        a \in {7, I32Min}, b \in {0, 2, MinusOne}, f \in {FUNCT_DIV, FUNCT_DIVU}}

\* an overflowing add of $k0 into $zero
KernProgs ==
    {Li(K0, I32Max) \o << I_(OP_ADDI, K0, ZERO, 1) >> \o Exit,
     Li(K0, I32Max) \o Lis(T0, 1) \o << R_(K0, T0, ZERO, 0, FUNCT_ADD) >> \o Exit}

Bases == {TEXT_START, DATA_START, StackAddr, Unmapped}

\* sb/sh/sw $t1, off($t0); lw $t2, 0($t0)
StoreProgs ==
    {Li(T0, base) \o Li(T1, Pattern)
        \o << I_(sop, T0, T1, off), I_(OP_LW, T0, T2, 0) >> \o Exit :
        base \in Bases, sop \in {OP_SB, OP_SH, OP_SW}, off \in {0, 1, 2}}

\* lb/lh/lw/lbu/lhu $t2, off($t0)
LoadProgs ==
    {Li(T0, base) \o << I_(lop, T0, T2, off) >> \o Exit :
        base \in {DATA_START, Unmapped}, off \in {0, 1, 2},
        lop \in {OP_LB, OP_LH, OP_LW, OP_LBU, OP_LHU}}

\* beq $t0, $t1, N
BranchProgs ==
    {Li(T0, 1) \o Li(T1, b) \o << I_(OP_BEQ, T0, T1, n) >> \o Mark \o Exit :
        b \in {1, 2}, n \in {0, 1, 2, 65535, 65534, 32767, 32768}}

\* a BEQ stored in the stack and jumped to: sw $t0, 4($t1); jr $t1
StackBranchProgs ==
    {Li(T0, I_(OP_BEQ, 0, 0, n)) \o Li(T1, StackAddr)
        \o << I_(OP_SW, T1, T0, 4), R_(T1, 0, 0, 0, FUNCT_JR) >> :
        n \in {32767, 16384}}

\* li $a0, 7; li $v0, n; syscall / break
SyscallProgs ==
    {Lis(A0, 7) \o Lis(V0, n) \o << w >> \o Mark \o Exit :
        n \in (0..18), w \in {SyscallWord}}
    \cup {Lis(A0, 7) \o Lis(V0, n) \o << BreakWord >> \o Mark \o Exit :
        n \in {0, SYSCALL_EXIT, SYSCALL_EXIT2}}

\* the exit and exit2 syscalls, with instructions after them
ExitProgs ==
    {<< SyscallWord >>, Exit \o Mark \o Exit}
    \cup {Li(A0, c) \o Lis(V0, SYSCALL_EXIT2) \o << SyscallWord >> \o Mark \o Exit :
            c \in {0, 3, MinusOne}}

\* read_string(buf, len) into the text page and into the data page
ReadStringProgs ==
    {Li(A0, base) \o Lis(A1, n) \o Lis(V0, SYSCALL_READ_STRING)
        \o << SyscallWord >> \o Exit :
        base \in {TEXT_START, DATA_START}, n \in {0, 1, 3, 5}}

\* read_int and read_char
ReadProgs ==
    {Lis(V0, n) \o << SyscallWord >> \o Exit :
        n \in {SYSCALL_READ_INT, SYSCALL_READ_CHAR}}

\* the unimplemented loads and stores, and words the decoder rejects
MiscProgs ==
    {<< I_(op, T0, T2, 0) >> \o Exit : op \in {OP_LWL, OP_LWR, OP_SWL, OP_SWR}}
    \cup {<< Word(64512, 0) >> \o Exit, << Word(1024, 0) >> \o Exit}

\* one sbrk call: li $a0, n; li $v0, 9; syscall
Sbrk(n) == Li(A0, n) \o Lis(V0, SYSCALL_SBRK) \o << SyscallWord >>

\* two sbrk calls in a row
SbrkProgs ==
    {Sbrk(a) \o Sbrk(b) \o Exit : a \in {0, 1, 4097, MinusOne}, b \in {0, 4096}}

NameData == << 97, 0, 98, 0 >>      \* "a\0b\0": a file that exists, one that does not
NameA == DATA_START
NameB == WrapAdd(DATA_START, 2)

\* open(name, flags): li $a0, name; li $a1, flags; li $v0, 13; syscall
Open(name, flags) ==
    Li(A0, name) \o Lis(A1, flags) \o Lis(V0, SYSCALL_OPEN) \o << SyscallWord >>

\* close(fd)
Close(fd) == Lis(A0, fd) \o Lis(V0, SYSCALL_CLOSE) \o << SyscallWord >>

\* read or write (n) of one byte at the start of the data page on fd
Io(n, fd) ==
    Lis(A0, fd) \o Li(A1, DATA_START) \o Lis(A2, 1) \o Lis(V0, n) \o << SyscallWord >>

\* open, open, close 3, read/write on 3, open
OpenProgs ==
    {Open(n1, 2) \o Open(n2, 2) \o Close(3) \o Io(n, 3) \o Open(NameA, 2) \o Exit :
        n1 \in {NameA, NameB}, n2 \in {NameA, NameB},
        n \in {SYSCALL_READ, SYSCALL_WRITE}}
    \cup {Open(Unmapped, 2) \o Exit}

\* open for reading (flags 0) or reading and writing (flags 2), then read
\* one byte or two
ReadFileProgs ==
    {Open(NameA, fl) \o Lis(A0, 3) \o Li(A1, DATA_START) \o Lis(A2, n)
        \o Lis(V0, SYSCALL_READ) \o << SyscallWord >> \o Exit :
        fl \in {0, 2}, n \in {1, 2}}

\* bltz/bgez/bltzal/bgezal $t0, 1
BcondProgs ==
    {Li(T0, a) \o << I_(OP_BCOND, T0, rt, 1) >> \o Mark \o Exit :
        a \in {1, MinusOne},
        rt \in {BCOND_BLTZ, BCOND_BGEZ, BCOND_BLTZAL, BCOND_BGEZAL}}

\* blez/bgtz $t0, 1
SignBranchProgs ==
    {Li(T0, a) \o << I_(op, T0, 0, 1) >> \o Mark \o Exit :
        a \in {0, 1, I32Max, I32Min, MinusOne}, op \in {OP_BLEZ, OP_BGTZ}}

\* mult/multu $t0, $t1
MulProgs ==
    {Li(T0, a) \o Li(T1, b) \o << R_(T0, T1, 0, 0, f) >> \o Exit :
        a \in {3, 65536, MinusOne}, b \in {5, 65536, I32Min},
        f \in {FUNCT_MULT, FUNCT_MULTU}}

\* jal over one word to a jr $ra, which comes back to the word after the jal
CallProgs ==
    {<< J_(OP_JAL, Shr(TEXT_START, 2) + 4) >> \o Mark \o Exit
        \o << R_(RA, 0, 0, 0, FUNCT_JR) >>}

\* jalr rd, $t0 with $t0 one word before the exit
JalrProgs ==
    {Li(T0, WrapAdd(TEXT_START, 12)) \o << R_(T0, 0, rd, 0, FUNCT_JALR) >>
        \o Mark \o Exit :
        rd \in {RA, T0, T2}}

\* j to the exit two words on, and j 0
JumpProgs ==
    {<< J_(OP_J, Shr(TEXT_START, 2) + 2) >> \o Mark \o Exit,
     << J_(OP_J, 0) >> \o Exit}

\* loads whose base and offset add up across 2^31 and across 2^32
LoadWrapProgs ==
    {Li(T0, base) \o << I_(lop, T0, T2, off) >> \o Exit :
        base \in {I32Max, MinusOne, WrapAdd(DATA_START, 4)}, off \in {1, 65532},
        lop \in {OP_LB, OP_LW, OP_LBU}}

Line == << 52, 50, 10 >>            \* "42\n"

\* modules that differ in their header's flags and entry point
NewModules ==
    {[ModuleOf(Exit, DataBytes) EXCEPT !.head.flags = f, !.head.entry = en] :
        f \in {0, 1, 2, 3, 4, 8}, en \in {0, TEXT_START, WrapAdd(TEXT_START, 4)}}

Scenarios ==
    {[module |-> mod, stdin |-> << >>] : mod \in NewModules}
    \cup
    {Scenario(ws, << >>) :
        ws \in ArithProgs \cup ImmProgs \cup DivProgs \cup KernProgs
               \cup StoreProgs \cup LoadProgs \cup BranchProgs
               \cup StackBranchProgs \cup SyscallProgs \cup ExitProgs
               \cup MiscProgs \cup SbrkProgs \cup BcondProgs
               \cup SignBranchProgs \cup MulProgs \cup CallProgs
               \cup JalrProgs \cup JumpProgs \cup LoadWrapProgs}
    \cup {[module |-> ModuleOf(ws, NameData), stdin |-> << >>] :
              ws \in OpenProgs \cup ReadFileProgs}
    \cup {[module |-> [ModuleOf(Sbrk(1) \o Exit, DataBytes) EXCEPT !.head.data[6] = 8],
           stdin |-> << >>]}
    \cup {Scenario(ws, Line) : ws \in ReadStringProgs \cup ReadProgs}

-----------------------------------------------------------------------------
(* The simulator driven by run, or by a caller of the public step          *)

MaxRetry == 2

LastNone == [ret |-> "none"]

ExecInit ==
    /\ \E sc \in Scenarios :
         /\ module = sc.module
         /\ stdin = sc.stdin
    /\ build \in [overflow_checks : BOOLEAN]
    /\ \E m \in {new_from_object(module, build.overflow_checks)} :
         \E nkc \in BOOLEAN :
           \E r \in {ExecNewWith(module, [no_kern_clobber |-> nkc], m)} :
              IF r.exec.some
              THEN exec = r.exec.v /\ driver \in {"run", "step"}
              ELSE exec = ExecEmpty /\ driver = "new"   \* no Exec was made
    /\ alive = TRUE
    /\ last = LastNone
    /\ nsteps = 0

MemIdle ==
    /\ memory = MemoryNew
    /\ memlast = [op |-> "new"]
    /\ roCalled = {}
    /\ roFresh = {}
    /\ nwrites = 0

\* one call of step on the Exec; last keeps what the call did, the
\* registers and trap of the Exec before it, and what the call before it
\* executed and returned
DoStep ==
    \E r \in {step(exec, stdin, build.overflow_checks)} :
        /\ exec' = r.e
        /\ stdin' = r.inp
        /\ alive' = ~ r.panic
        /\ last' = [ret |-> r.ret, word |-> r.word, inst |-> r.inst,
                    raised |-> r.raised, pcx |-> r.pcx,
                    pre |-> [ctx |-> exec.ctx, exn |-> exec.exn],
                    prev |-> IF last.ret = "none" THEN LastNone
                             ELSE [ret |-> last.ret, inst |-> last.inst]]
        /\ UNCHANGED << driver, build, module >>

\* a run loop that ignores what step returns
RunStepOn ==
    /\ driver = "run"
    /\ alive
    /\ DoStep
    /\ UNCHANGED nsteps
    /\ UNCHANGED memVars
    /\ UNCHANGED call

\* Exec::run: `loop { self.step()?; }`
RunStep ==
    /\ driver = "run"
    /\ alive
    /\ last.ret \in {"none", "Ok"}
    /\ DoStep
    /\ UNCHANGED nsteps
    /\ UNCHANGED memVars
    /\ UNCHANGED call

\* a caller of the public step, who may call it again after an error
CallStep ==
    /\ driver = "step"
    /\ alive
    /\ last.ret \in {"none", "Ok"} \/ nsteps < MaxRetry
    /\ DoStep
    /\ nsteps' = IF last.ret \in {"none", "Ok"} THEN nsteps ELSE nsteps + 1
    /\ UNCHANGED memVars
    /\ UNCHANGED call

ExecNext == RunStep \/ CallStep

-----------------------------------------------------------------------------
(* A Memory driven through its public operations                           *)

MaxWrites == 1

MemAddrs == {TEXT_START, WrapAdd(TEXT_START, 1), WrapAdd(TEXT_START, 2), DATA_START}
AllocAddrs == {TEXT_START, WrapAdd(DATA_START, 4)}
MemWords == {Pattern}

ExecIdle ==
    /\ exec = ExecEmpty
    /\ module = ModuleOf(<< >>, << >>)
    /\ stdin = << >>
    /\ build = [overflow_checks |-> FALSE]
    /\ driver = "api"
    /\ alive = TRUE
    /\ last = LastNone
    /\ nsteps = 0

MemInit == MemIdle

AllocPage ==
    /\ driver = "api" /\ alive
    /\ \E v \in AllocAddrs, w \in BOOLEAN, x \in BOOLEAN :
         \E a \in {alloc_page(memory, v, w, x)} :
             /\ memory' = a.mem
             /\ alive' = ~ a.panic
             /\ memlast' = [op |-> "alloc_page", addr |-> v, write |-> w,
                            some |-> a.page.some]
             /\ roCalled' = IF w THEN roCalled ELSE roCalled \cup {VirtPage(v)}
             /\ roFresh' = IF ~ w /\ a.page.some
                           THEN roFresh \cup {VirtPage(v)} ELSE roFresh
    /\ UNCHANGED << exec, driver, build, module, stdin, last, nsteps, nwrites, call >>

\* a read_* call: Memory unchanged (&self)
DoRead(op, a, r) ==
    /\ memlast' = [op |-> op, addr |-> a, ok |-> r.ok,
                   val |-> IF r.ok THEN r.val ELSE 0,
                   err |-> IF r.ok THEN "" ELSE r.err]
    /\ UNCHANGED << memory, roCalled, roFresh, nwrites >>
    /\ UNCHANGED execVars
    /\ UNCHANGED call

ReadWord ==
    /\ driver = "api" /\ alive
    /\ \E a \in MemAddrs : \E r \in {read_word(memory, a)} : DoRead("read_word", a, r)

ReadHalf ==
    /\ driver = "api" /\ alive
    /\ \E a \in MemAddrs : \E r \in {read_half(memory, a)} : DoRead("read_half", a, r)

ReadByte ==
    /\ driver = "api" /\ alive
    /\ \E a \in MemAddrs : \E r \in {read_byte(memory, a)} : DoRead("read_byte", a, r)

\* a write_* call
DoWrite(op, a, v, w) ==
    /\ nwrites < MaxWrites
    /\ nwrites' = nwrites + 1
    /\ memory' = w.mem
    /\ memlast' = [op |-> op, addr |-> a, ok |-> w.ok, val |-> v,
                   err |-> IF w.ok THEN "" ELSE w.err, pre |-> memory]
    /\ UNCHANGED << roCalled, roFresh >>
    /\ UNCHANGED execVars
    /\ UNCHANGED call

WriteWord ==
    /\ driver = "api" /\ alive
    /\ \E a \in MemAddrs, v \in MemWords :
         \E w \in {write_word(memory, a, v)} : DoWrite("write_word", a, v, w)

WriteHalf ==
    /\ driver = "api" /\ alive
    /\ \E a \in MemAddrs, v \in MemWords :
         \E w \in {write_half(memory, a, Lo16(v))} :
             DoWrite("write_half", a, Lo16(v), w)

WriteByte ==
    /\ driver = "api" /\ alive
    /\ \E a \in MemAddrs, v \in MemWords :
         \E w \in {write_byte(memory, a, v % 256)} :
             DoWrite("write_byte", a, v % 256, w)

\* the slices alloc_data is given: within one page, and one byte more than
\* a page (its bytes 0, PAGE_SIZE - 1 and PAGE_SIZE are not zero)
ShortData == << 17, 0, 18 >>
LongData ==
    [i \in 1..(PAGE_SIZE + 1) |->
        IF i \in {1, PAGE_SIZE, PAGE_SIZE + 1} THEN 7 + (i % 3) ELSE 0]

\* the last page of the address space
LastPage == Word(65535, 61440)

\* (base, bytes, write) of the alloc_data calls: nothing to store, two
\* read-only pages from a page-aligned base, a base inside a page, and the
\* last page; exec is the opposite of write, as for .text and .data
AllocCalls ==
    { << TEXT_START, << >>, FALSE >>, << TEXT_START, LongData, FALSE >>,
      << WrapAdd(DATA_START, 4), ShortData, TRUE >>,
      << LastPage, ShortData, TRUE >> }

\* alloc_data is called while fewer than MaxFrames frames exist
MaxFrames == 2

\* an alloc_data call; a panic (the unwrap of None, the overflowing `+=`
\* in a build that checks it) ends the program
AllocData ==
    /\ driver = "api" /\ alive
    /\ Len(memory.pages) < MaxFrames
    /\ \E c \in AllocCalls, oc \in BOOLEAN :
         \E a \in {alloc_data(memory, c[1], c[2], c[3], ~ c[3], oc)} :
             /\ memory' = a.mem
             /\ alive' = ~ a.panic
             /\ memlast' = [op |-> "alloc_data", addr |-> c[1], len |-> Len(c[2]),
                            write |-> c[3], oc |-> oc, panic |-> a.panic,
                            next |-> a.next]
    /\ UNCHANGED << exec, driver, build, module, stdin, last, nsteps, nwrites,
                    roCalled, roFresh, call >>

MemNext ==
    AllocPage \/ ReadWord \/ ReadHalf \/ ReadByte \/ WriteWord \/ WriteHalf \/ WriteByte

LibIdle == call = [fn |-> "none"]

MemSpecInit == ExecIdle /\ MemInit /\ LibIdle
MemSpec == MemSpecInit /\ [][MemNext]_vars

\* a Memory driven through alloc_data, alloc_page and its byte accesses
AllocNext == AllocData \/ AllocPage \/ ReadByte \/ WriteByte
AllocSpecInit == ExecIdle /\ MemInit /\ LibIdle
AllocSpec == AllocSpecInit /\ [][AllocNext]_vars

-----------------------------------------------------------------------------

Init == (ExecInit /\ MemIdle /\ LibIdle) \/ (ExecIdle /\ MemInit /\ LibIdle)
Next == ExecNext \/ MemNext
Spec == Init /\ [][Next]_vars

-----------------------------------------------------------------------------
(* Properties.  What the history variables say about the last call.        *)

WriteOps == {"write_byte", "write_half", "write_word"}

Mapped(m, a) == VirtPage(a) \in DOMAIN m.table
Writable(m, a) == Mapped(m, a) /\ m.write[VirtPage(a)]

\* the last call of step fetched and decoded an instruction and executed it
Executed == last.ret \in {"Ok", "ErrException", "Panic"}
ExecutedR(functs) == Executed /\ last.inst.form = "R" /\ last.inst.funct \in functs
ExecutedI(ops) == Executed /\ last.inst.form = "I" /\ last.inst.op \in ops

\* register r, and the effective address of the I-form instruction, before
\* the last call of step
PreReg(r) == last.pre.ctx.reg[r]
PreAddr == WrapAdd(PreReg(last.inst.rs), SignExt16(last.inst.imm))

-----------------------------------------------------------------------------
(* Memory: alignment, permissions, byte order                              *)

\* C3 (amended): a misaligned read_word/write_word (a % 4 # 0) or
\* read_half/write_half (a % 2 # 0) fails with the unaligned-access error;
\* an aligned read fails exactly when the page is unmapped, and an aligned
\* write exactly when the page is unmapped or not writable.
C3_AlignmentOrPage ==
    /\ \A a \in MemAddrs :
         /\ (~ read_word(memory, a).ok) <=> (a % 4 # 0 \/ ~ Mapped(memory, a))
         /\ (~ read_half(memory, a).ok) <=> (a % 2 # 0 \/ ~ Mapped(memory, a))
         /\ (~ write_word(memory, a, Pattern).ok)
               <=> (a % 4 # 0 \/ ~ Writable(memory, a))
         /\ (~ write_half(memory, a, Lo16(Pattern)).ok)
               <=> (a % 2 # 0 \/ ~ Writable(memory, a))
         /\ a % 4 # 0 => /\ read_word(memory, a) = MemErr("unaligned")
                         /\ write_word(memory, a, Pattern) = WrErr("unaligned", memory)
         /\ a % 2 # 0 => /\ read_half(memory, a) = MemErr("unaligned")
                         /\ write_half(memory, a, Lo16(Pattern)) = WrErr("unaligned", memory)
    /\ memlast.op \in {"write_word", "write_half"} =>
         LET n == IF memlast.op = "write_word" THEN 4 ELSE 2
         IN  memlast.ok <=> (memlast.addr % n = 0 /\ Writable(memlast.pre, memlast.addr))
    /\ memlast.op \in {"read_word", "read_half"} =>
         LET n == IF memlast.op = "read_word" THEN 4 ELSE 2
         IN  memlast.ok <=> (memlast.addr % n = 0 /\ Mapped(memory, memlast.addr))

\* an aligned write_word was called and failed: the page is read-only
C3_AlignedWriteFails ==
    /\ memlast.op = "write_word"
    /\ memlast.addr % 4 = 0
    /\ ~ memlast.ok
    /\ memlast.err = "readonly"

\* C3 as stated: a word access fails if and only if a % 4 # 0, a half
\* access if and only if a % 2 # 0.
C3_AlignmentOnly ==
    /\ memlast.op \in {"read_word", "write_word"} =>
         ((~ memlast.ok) <=> memlast.addr % 4 # 0)
    /\ memlast.op \in {"read_half", "write_half"} =>
         ((~ memlast.ok) <=> memlast.addr % 2 # 0)

\* C4 (amended): after alloc_page(v, write=false, exec) has mapped the page
\* of v (the page was not mapped before the call), every write_byte,
\* write_half and write_word to that page fails.
C4_FreshPageReadOnly ==
    /\ \A a \in MemAddrs :
         VirtPage(a) \in roFresh =>
            /\ write_byte(memory, a, 1) = WrErr("readonly", memory)
            /\ ~ write_half(memory, a, 1).ok
            /\ ~ write_word(memory, a, 1).ok
    /\ (memlast.op \in WriteOps /\ VirtPage(memlast.addr) \in roFresh) =>
            ~ memlast.ok /\ memory = memlast.pre

\* write_byte was called on a page that alloc_page mapped read-only
C4_WriteToFreshPage ==
    /\ memlast.op = "write_byte"
    /\ VirtPage(memlast.addr) \in roFresh
    /\ ~ memlast.ok

\* C4 as stated: after any call alloc_page(v, write=false, exec), in any
\* memory state, every write to the page of v fails.
C4_AnyPageReadOnly ==
    (memlast.op \in WriteOps /\ VirtPage(memlast.addr) \in roCalled) => ~ memlast.ok

-----------------------------------------------------------------------------
(* Exec: step, traps, arithmetic, branches, exit                           *)

\* the kinds of exception the last call of step raised
RaisedKinds == {last.raised[i] : i \in DOMAIN last.raised}
TerminatingKinds == {"Overflow", "DivideByZero", "Memory", "Exit"}

\* C1: in every state reached from Exec::new by calls of step, whatever they
\* return, reg[0] = 0.
C1_ZeroRegister == Reg(exec, ZERO) = 0

\* C2: for every call of step that fetched and decoded an instruction: if
\* the instruction raised a terminating trap, step returns an error and pc
\* still holds the address of the instruction; otherwise step returns Ok and
\* pc is the value the instruction left in pc, plus 4.
C2_TrapOrAdvance ==
    Executed =>
        IF RaisedKinds \cap TerminatingKinds # {}
        THEN last.ret = "ErrException" /\ exec.ctx.pc = last.pre.ctx.pc
        ELSE last.ret = "Ok" /\ exec.ctx.pc = WrapAdd(last.pcx, 4)

\* the pages of the text section, and the text bytes as they are in memory
TextPages ==
    {VirtPage(TEXT_START) + k :
        k \in 0 .. ((Len(module.text) + PAGE_SIZE - 1) \div PAGE_SIZE) - 1}
TextIntact ==
    /\ \A i \in 1 .. Len(module.text) :
         read_byte(exec.mem, WrapAdd(TEXT_START, i - 1)) = MemOk(module.text[i])
    /\ \A pg \in TextPages : ~ exec.mem.write[pg]

\* the last call of step executed a store (or the read_string syscall, which
\* stores a line) whose first byte goes to an address in a text page
StoreToText ==
    /\ ExecutedI({OP_SB, OP_SH, OP_SW})
    /\ VirtPage(PreAddr) \in TextPages
    /\ last.ret # "Panic"
StoreAligned ==
    PreAddr % (CASE last.inst.op = OP_SW -> 4 [] last.inst.op = OP_SH -> 2
                 [] OTHER -> 1) = 0
ReadStringToText ==
    /\ ExecutedR({FUNCT_SYSCALL})
    /\ PreReg(V0) = SYSCALL_READ_STRING
    /\ VirtPage(PreReg(A0)) \in TextPages
    /\ last.ret # "Panic"

\* C6 (amended): a store to an address in a text page fails: SB, an aligned
\* SH or SW and the read_string syscall with the read-only-page
\* MemoryAccessError, a misaligned SH or SW with the unaligned-access
\* MemoryAccessError; the text bytes and the page's permission are the same
\* after any sequence of steps.
C6_TextReadOnly ==
    /\ driver \in {"run", "step"} => TextIntact
    /\ StoreToText =>
         /\ last.ret = "ErrException"
         /\ last.raised = << "Memory" >>
         /\ exec.exn = Some(ExnMemory(IF StoreAligned THEN "readonly" ELSE "unaligned"))
    /\ ReadStringToText =>
         /\ last.ret = "ErrException"
         /\ last.raised = << "Syscall", "Memory" >>
         /\ exec.exn = Some(ExnMemory("readonly"))

\* a misaligned SW to the text page has failed with the unaligned-access error
C6_MisalignedStoreToText ==
    /\ StoreToText
    /\ last.inst.op = OP_SW
    /\ ~ StoreAligned
    /\ exec.exn = Some(ExnMemory("unaligned"))

\* C6 as stated: every store to an address in a text page fails with the
\* MemoryAccessError for writing a read-only page, and the text bytes are
\* unchanged.
C6_AlwaysReadOnlyError ==
    /\ driver \in {"run", "step"} => TextIntact
    /\ (StoreToText \/ ReadStringToText) =>
         /\ last.ret = "ErrException"
         /\ exec.exn = Some(ExnMemory("readonly"))

\* the operands, destination and result of the ADD/SUB/ADDI/ADDU/SUBU/ADDIU
\* the last call of step executed, computed without leaving 32 bits
SignedArith == ExecutedR({FUNCT_ADD, FUNCT_SUB}) \/ ExecutedI({OP_ADDI})
UnsignedArith == ExecutedR({FUNCT_ADDU, FUNCT_SUBU}) \/ ExecutedI({OP_ADDIU})
ArithA == PreReg(last.inst.rs)
ArithB == IF last.inst.form = "R" THEN PreReg(last.inst.rt)
          ELSE SignExt16(last.inst.imm)
ArithDest == IF last.inst.form = "R" THEN last.inst.rd ELSE last.inst.rt
ArithIsSub == last.inst.form = "R" /\ last.inst.funct \in {FUNCT_SUB, FUNCT_SUBU}
\* floor((a + b + c) / 2), for i32 a, b and c in 0..1
SumHalf(a, b, c) == (a \div 2) + (b \div 2) + (((a % 2) + (b % 2) + c) \div 2)
\* (a + b) mod 2^32 as a word
Mod32Sum(a, b) ==
    LET h == SumHalf(a, b, 0)
    IN  IF h >= 1073741824
        THEN (a - 1073741824 - 1073741824) + (b - 1073741824 - 1073741824)
        ELSE IF h < -1073741824 THEN (a + I32Max + 1) + (b + I32Max + 1)
        ELSE a + b
\* the signed result a + b, or a - b = a + (-1 - b) + 1, is outside i32
ArithOverflows ==
    LET h == IF ArithIsSub THEN SumHalf(ArithA, (-1) - ArithB, 1)
             ELSE SumHalf(ArithA, ArithB, 0)
    IN  h >= 1073741824 \/ h < -1073741824
ArithResult ==
    IF ArithIsSub THEN Mod32Sum(Mod32Sum(ArithA, (-1) - ArithB), 1)
    ELSE Mod32Sum(ArithA, ArithB)
\* register r after a trap entry: $k0 and $k1 clobbered unless disabled
AfterTrapEntry(r) ==
    IF r \in {K0, K1} /\ ~ exec.args.no_kern_clobber THEN Clobber(PreReg(r))
    ELSE PreReg(r)

\* C7 (amended): ADD, SUB and ADDI raise Overflow exactly when the signed
\* result is outside [-2^31, 2^31 - 1]; the result is then not written, so
\* every register keeps its value except $k0 and $k1, which the trap entry
\* clobbers (unless no_kern_clobber) even when one of them is the
\* destination.  ADDU, SUBU and ADDIU never trap and write the result
\* modulo 2^32 (a destination $zero reads 0 after the step).
C7_OverflowTraps ==
    /\ SignedArith =>
         /\ ("Overflow" \in RaisedKinds) <=> ArithOverflows
         /\ ArithOverflows =>
              /\ last.ret = "ErrException"
              /\ exec.exn = Some(ExnOverflow)
              /\ \A r \in Regs : Reg(exec, r) = AfterTrapEntry(r)
         /\ ~ ArithOverflows =>
              /\ last.raised = << >>
              /\ ArithDest # ZERO => Reg(exec, ArithDest) = ArithResult
    /\ UnsignedArith =>
         /\ last.raised = << >>
         /\ last.ret = "Ok"
         /\ Reg(exec, ArithDest) = IF ArithDest = ZERO THEN 0 ELSE ArithResult

\* an ADD into $k1 overflowed with the clobber enabled
C7_OverflowIntoK1 ==
    /\ ExecutedR({FUNCT_ADD})
    /\ ArithOverflows
    /\ ArithDest = K1
    /\ ~ exec.args.no_kern_clobber
    /\ "Overflow" \in RaisedKinds

\* C7 as stated: on Overflow the destination register keeps its previous
\* value; ADDU, SUBU and ADDIU never trap and write the result.
C7_DestinationKept ==
    /\ SignedArith =>
         /\ ("Overflow" \in RaisedKinds) <=> ArithOverflows
         /\ ArithOverflows => Reg(exec, ArithDest) = PreReg(ArithDest)
    /\ UnsignedArith =>
         /\ last.raised = << >>
         /\ ArithDest # ZERO => Reg(exec, ArithDest) = ArithResult

\* C8: DIV and DIVU with reg[rt] = 0 raise DivideByZero, step returns an
\* error, and HI and LO keep their values.
C8_DivideByZero ==
    (ExecutedR({FUNCT_DIV, FUNCT_DIVU}) /\ PreReg(last.inst.rt) = 0) =>
        /\ last.ret = "ErrException"
        /\ last.raised = << "DivideByZero" >>
        /\ exec.exn = Some(ExnDivideByZero)
        /\ exec.ctx.hi = last.pre.ctx.hi
        /\ exec.ctx.lo = last.pre.ctx.lo

\* a DIV by zero has executed with HI and LO holding different nonzero words
C8_DividedByZero ==
    /\ ExecutedR({FUNCT_DIV})
    /\ PreReg(last.inst.rt) = 0
    /\ last.pre.ctx.hi # 0
    /\ last.pre.ctx.lo # 0
    /\ last.pre.ctx.hi # last.pre.ctx.lo
    /\ last.ret = "ErrException"

\* C9: BEQ rs,rt,N at address p leaves pc = p + 4 + (sext(N) << 2) mod 2^32
\* when reg[rs] = reg[rt], and p + 4 otherwise, for every 16-bit N.
C9_BranchTarget ==
    ExecutedI({OP_BEQ}) =>
        /\ last.ret = "Ok"
        /\ exec.ctx.pc =
             IF PreReg(last.inst.rs) = PreReg(last.inst.rt)
             THEN WrapAdd(WrapAdd(last.pre.ctx.pc, 4), SignExt16(last.inst.imm) * 4)
             ELSE WrapAdd(last.pre.ctx.pc, 4)

\* the last call of step executed SYSCALL with $v0 = 10 (exit) or 17 (exit2)
ExitSyscall ==
    /\ ExecutedR({FUNCT_SYSCALL})
    /\ PreReg(V0) \in {SYSCALL_EXIT, SYSCALL_EXIT2}
ExitRecorded ==
    ExitSyscall =>
        /\ last.ret = "ErrException"
        /\ last.raised = << "Syscall", "Exit" >>
        /\ exec.exn = Some(ExnExit(IF PreReg(V0) = SYSCALL_EXIT THEN 0
                                   ELSE PreReg(A0)))
        /\ exec.ctx.pc = last.pre.ctx.pc

\* C10: the step that executes an exit or exit2 syscall records Exit(0) for
\* $v0 = 10 and Exit(reg[$a0]) for $v0 = 17 and returns an error, and under
\* run no step follows it: no instruction after that SYSCALL is executed.
C10_RunStopsAtExit ==
    /\ [] ExitRecorded
    /\ [][~ (driver = "run" /\ ExitSyscall)]_vars

\* run has executed exit2 with $a0 = 3
C10_Exit2Taken ==
    /\ driver = "run"
    /\ ExitSyscall
    /\ PreReg(V0) = SYSCALL_EXIT2
    /\ exec.exn = Some(ExnExit(3))

-----------------------------------------------------------------------------
(* Exec::new and the trap entry                                            *)

\* the state is the one Exec::new left: no step has been called
JustConstructed == driver \in {"run", "step"} /\ last.ret = "none"

TrapEntryOf(w) == Shr(IF w % 2 = 1 THEN Xor32(w, Word(32768, 98)) ELSE w, 1)

\* C12: a step whose instruction raises a trap (SYSCALL, BREAK, Overflow,
\* DivideByZero, Memory) updates k0 and k1 once each: XOR with 0x80000062 if
\* the low bit is 1, then shift right by one; with the kernel clobber
\* disabled a trap leaves k0 and k1 unchanged.
C12_KernelClobber ==
    (Executed /\ last.ret # "Panic" /\ last.raised # << >>) =>
        \A r \in {K0, K1} :
            Reg(exec, r) = IF exec.args.no_kern_clobber THEN PreReg(r)
                           ELSE TrapEntryOf(PreReg(r))

\* a DivideByZero trap was entered with k1 = 0xFFFFFFFF and left it 0x3FFFFFCE
C12_ClobberedK1 ==
    /\ Executed /\ last.ret # "Panic"
    /\ last.raised = << "DivideByZero" >>
    /\ ~ exec.args.no_kern_clobber
    /\ PreReg(K1) = -1
    /\ Reg(exec, K1) = Word(16383, 65486)

-----------------------------------------------------------------------------
(* The instruction codec driven on its own: words are decoded, and what was *)
(* decoded is encoded again                                                *)

\* every opcode with every funct, and operand fields all 0, all 1 and
\* alternating
CodecRests ==
    {0, 67108863, 44739242, 22369621}                \* 0, 0x3FFFFFF, 0x2AAAAAA, 0x1555555
    \cup (0 .. 63) \cup {67108800 + f : f \in 0 .. 63}   \* 0x3FFFFC0 + funct
CodecWords == {Or32(Shl(op, 26), rest) : op \in 0 .. 63, rest \in CodecRests}

\* Instruction::try_from(w)
TryFrom ==
    /\ driver = "api" /\ call.fn = "none"
    /\ \E w \in CodecWords : \E d \in {try_from(w)} :
          call' = [fn |-> "try_from", w |-> w, out |-> d]
    /\ UNCHANGED execVars
    /\ UNCHANGED memVars

\* u32::from(inst) of the Instruction just decoded
Encode ==
    /\ driver = "api" /\ call.fn = "try_from" /\ call.out.ok
    /\ \E v \in {encode(call.out.inst)} :
          call' = [fn |-> "encode", w |-> call.w, inst |-> call.out.inst, out |-> v]
    /\ UNCHANGED execVars
    /\ UNCHANGED memVars

CodecNext == TryFrom \/ Encode
CodecSpecInit == ExecIdle /\ MemIdle /\ LibIdle
CodecSpec == CodecSpecInit /\ [][CodecNext]_vars

\* the bit fields of the word last decoded, by division
WOpcode == (call.w \div 67108864) % 64
WRs     == (call.w \div 2097152) % 32
WRt     == (call.w \div 65536) % 32
WRd     == (call.w \div 2048) % 32
WShamt  == (call.w \div 64) % 32
WFunct  == call.w % 64

\* C13: for every word w that decode accepts, encode(decode(w)) = w.
C13_EncodeDecode ==
    /\ call.fn = "encode" => call.out = call.w
    /\ (call.fn = "try_from" /\ call.out.ok) => encode(call.out.inst) = call.w

\* an R-form word with every operand bit set was decoded and encoded
C13_EncodedRForm ==
    /\ call.fn = "encode"
    /\ call.inst.form = "R"
    /\ call.inst.shamt = 31 /\ call.inst.rs = 31
    /\ call.inst.rt = 31 /\ call.inst.rd = 31

\* C14: decode(w) succeeds exactly when the opcode is 0 with a funct of the
\* R-form list, or is 2..3 (J-form), or is in 4..15, 32..38, 40..43, 46
\* (I-form); every other word gives an InstructionParseError; the decoded
\* fields are the bit fields of w.
C14_DecodeAccepts ==
    call.fn = "try_from" =>
        LET rform == WOpcode = 0
                     /\ WFunct \in {0, 2, 3, 4, 6, 7, 8, 9, 12, 13, 16, 17, 18, 19,
                                    24, 25, 26, 27, 32, 33, 34, 35, 36, 37, 38, 39,
                                    42, 43}
            jform == WOpcode \in {2, 3}
            iform == WOpcode \in (4 .. 15) \cup (32 .. 38) \cup (40 .. 43) \cup {46}
        IN  /\ call.out.ok <=> (rform \/ jform \/ iform)
            /\ ~ call.out.ok => call.out.err \in {"Illegal funct", "Illegal opcode"}
            /\ rform => call.out.inst =
                  [form |-> "R", rs |-> WRs, rt |-> WRt, rd |-> WRd,
                   shamt |-> WShamt, funct |-> WFunct]
            /\ jform => call.out.inst =
                  [form |-> "J", op |-> WOpcode, imm |-> call.w % 67108864]
            /\ iform => call.out.inst =
                  [form |-> "I", op |-> WOpcode, rs |-> WRs, rt |-> WRt,
                   imm |-> call.w % 65536]

\* an I-form word with alternating operand bits was decoded
C14_DecodedIForm ==
    /\ call.fn = "try_from"
    /\ call.out.ok
    /\ call.out.inst.form = "I"
    /\ call.out.inst.op = 46
    /\ call.out.inst.rs = 21 /\ call.out.inst.rt = 10

-----------------------------------------------------------------------------
(* common/types.rs, common/module.rs: the object module and its byte form  *)

\* enum Location and `as u8`
LocationNames ==
    << "TEXT", "RDATA", "DATA", "SDATA", "SBSS", "BSS", "REL", "REF",
       "SYM", "STR", "HEAP", "STACK", "ABS", "EXT", "UNK", "NONE" >>
Locations == {LocationNames[i] : i \in 1 .. 16}
LocationAsU8(l) == (CHOOSE i \in 1 .. 16 : LocationNames[i] = l) - 1

\* impl TryFrom<u8> for Location
LocationTryFrom(value) ==
    CASE value = 0 -> Some("TEXT")   [] value = 1 -> Some("RDATA")
      [] value = 2 -> Some("DATA")   [] value = 3 -> Some("SDATA")
      [] value = 4 -> Some("SBSS")   [] value = 5 -> Some("BSS")
      [] value = 6 -> Some("REL")    [] value = 7 -> Some("REF")
      [] value = 8 -> Some("SYM")    [] value = 9 -> Some("STR")
      [] value = 10 -> Some("HEAP")  [] value = 11 -> Some("STACK")
      [] value = 12 -> Some("ABS")   [] value = 13 -> Some("EXT")
      [] value = 14 -> Some("UNK")   [] value = 15 -> Some("NONE")
      [] OTHER -> None

\* enum RefUnknown and `as u8`
RefUnknowns == {"PLUS", "EQ", "MINUS"}
RefUnknownAsU8(u) == CASE u = "PLUS" -> 0 [] u = "EQ" -> 1 [] u = "MINUS" -> 2

\* impl TryFrom<u8> for RefUnknown
RefUnknownTryFrom(value) ==
    CASE value = 0 -> Some("PLUS") [] value = 1 -> Some("EQ")
      [] value = 2 -> Some("MINUS") [] OTHER -> None

\* enum RefType as types.rs declares it, and `as u8`
RefTypes == {"IMM", "IMM2", "WORD", "JUMP", "IMM3"}
RefTypeAsU8(t) ==
    CASE t = "IMM" -> 1 [] t = "IMM2" -> 2 [] t = "WORD" -> 3
      [] t = "JUMP" -> 4 [] t = "IMM3" -> 5

\* impl TryFrom<u8> for RefType, which names a variant HWORD
RefTypeTryFrom(value) ==
    CASE value = 1 -> Some("IMM")  [] value = 2 -> Some("HWORD")
      [] value = 3 -> Some("IMM2") [] value = 4 -> Some("WORD")
      [] value = 5 -> Some("JUMP") [] value = 6 -> Some("IMM3")
      [] OTHER -> None

\* u16::to_le_bytes / from_le_bytes
to_le_bytes16(h) == << h % 256, h \div 256 >>
from_le_bytes16(b) == b[2] * 256 + b[1]

\* RelEntry::to_bytes
RelEntry_to_bytes(e) ==
    to_be_bytes(e.addr)
    \o << LocationAsU8(e.sect), RefTypeAsU8(e.rel_info), 0, 0 >>

\* RelEntry::from_bytes
RelEntry_from_bytes(bytes) ==
    IF ~ LocationTryFrom(bytes[5]).some THEN None
    ELSE IF ~ RefTypeTryFrom(bytes[6]).some THEN None
    ELSE Some([addr |-> from_be_bytes(SubSeq(bytes, 1, 4)),
               sect |-> LocationTryFrom(bytes[5]).v,
               rel_info |-> RefTypeTryFrom(bytes[6]).v])

\* RefEntry::to_bytes
RefEntry_to_bytes(e) ==
    to_be_bytes(e.addr) \o to_be_bytes(e.str_off)
    \o << LocationAsU8(e.ref_info.sect),
          Or32((RefUnknownAsU8(e.ref_info.unknown) * 16) % 256,
               RefTypeAsU8(e.ref_info.typ)) >>
    \o to_le_bytes16(e.ref_info.ix)

\* RefEntry::from_bytes
RefEntry_from_bytes(bytes) ==
    IF ~ LocationTryFrom(bytes[9]).some THEN None
    ELSE IF ~ RefUnknownTryFrom(bytes[10] \div 16).some THEN None
    ELSE IF ~ RefTypeTryFrom(bytes[10] % 16).some THEN None
    ELSE Some([addr |-> from_be_bytes(SubSeq(bytes, 1, 4)),
               str_off |-> from_be_bytes(SubSeq(bytes, 5, 8)),
               ref_info |-> [ix |-> from_le_bytes16(SubSeq(bytes, 11, 12)),
                             unknown |-> RefUnknownTryFrom(bytes[10] \div 16).v,
                             typ |-> RefTypeTryFrom(bytes[10] % 16).v,
                             sect |-> LocationTryFrom(bytes[9]).v]])

\* SymEntry::to_bytes
SymEntry_to_bytes(e) ==
    to_be_bytes(e.flags) \o to_be_bytes(e.val) \o to_be_bytes(e.str_off)
    \o to_be_bytes16(e.ofid) \o << 0, 0 >>

\* SymEntry::from_bytes
SymEntry_from_bytes(bytes) ==
    Some([flags |-> from_be_bytes(SubSeq(bytes, 1, 4)),
          val |-> from_be_bytes(SubSeq(bytes, 5, 8)),
          str_off |-> from_be_bytes(SubSeq(bytes, 9, 12)),
          ofid |-> from_be_bytes16(SubSeq(bytes, 13, 14))])

MAGIC   == 64206        \* 0xface
VERSION == 11462        \* 0x2cc6
HEADER_LEN == 52

\* ObjectHeader::to_vec_u8
Header_to_vec_u8(h) ==
    to_be_bytes16(h.magic) \o to_be_bytes16(h.version)
    \o to_be_bytes(h.flags) \o to_be_bytes(h.entry)
    \o to_be_bytes(h.data[1]) \o to_be_bytes(h.data[2]) \o to_be_bytes(h.data[3])
    \o to_be_bytes(h.data[4]) \o to_be_bytes(h.data[5]) \o to_be_bytes(h.data[6])
    \o to_be_bytes(h.data[7]) \o to_be_bytes(h.data[8]) \o to_be_bytes(h.data[9])
    \o to_be_bytes(h.data[10])

\* ObjectHeader::from_slice_u8
Header_from_slice_u8(data) ==
    IF Len(data) # HEADER_LEN THEN None
    ELSE IF SubSeq(data, 1, 2) # to_be_bytes16(MAGIC) THEN None
    ELSE Some([magic   |-> from_be_bytes16(SubSeq(data, 1, 2)),
               version |-> from_be_bytes16(SubSeq(data, 3, 4)),
               flags   |-> from_be_bytes(SubSeq(data, 5, 8)),
               entry   |-> from_be_bytes(SubSeq(data, 9, 12)),
               data    |-> [i \in 1 .. 10 |->
                              from_be_bytes(SubSeq(data, 9 + 4 * i, 12 + 4 * i))]])

RECURSIVE Flatten(_)
Flatten(ss) == IF ss = << >> THEN << >> ELSE Head(ss) \o Flatten(Tail(ss))

\* ObjectModule::to_vec_u8
to_vec_u8(m) ==
    Header_to_vec_u8(m.head) \o m.text \o m.rdata \o m.data \o m.sdata
    \o Flatten([i \in 1 .. Len(m.rel_info) |-> RelEntry_to_bytes(m.rel_info[i])])
    \o Flatten([i \in 1 .. Len(m.ext_ref) |-> RefEntry_to_bytes(m.ext_ref[i])])
    \o Flatten([i \in 1 .. Len(m.symtab) |-> SymEntry_to_bytes(m.symtab[i])])
    \o m.strtab

\* Iterator::take(n) and what it leaves, n a u32 `as usize`
TakeLen(s, n) == IF n < 0 \/ n > Len(s) THEN Len(s) ELSE n
Take(s, n) == SubSeq(s, 1, TakeLen(s, n))
Skip(s, n) == SubSeq(s, TakeLen(s, n) + 1, Len(s))

\* what from_slice_u8 comes to: a module, an Err(String), or a panic
ParseOk(m)       == [kind |-> "Ok", m |-> m]
ParseErr(msg)    == [kind |-> "Err", msg |-> msg]
ParsePanic(msg)  == [kind |-> "Panic", msg |-> msg]

EntryFromBytes(what, bytes) ==
    CASE what = "rel" -> RelEntry_from_bytes(bytes)
      [] what = "ref" -> RefEntry_from_bytes(bytes)
      [] what = "sym" -> SymEntry_from_bytes(bytes)

PushFront(e, r) ==
    IF r.st # "Ok" THEN r
    ELSE [st |-> "Ok", recs |-> << e >> \o r.recs, rest |-> r.rest]

\* the loops `for _ in 0..head.data[k]`: take(size), try_into (short: Err),
\* from_bytes(..).expect(..) (None: panic), push
RECURSIVE ReadRecs(_, _, _, _)
ReadRecsNext(e, bytes, n, size, what) ==
    IF ~ e.some THEN [st |-> "Invalid"]
    ELSE PushFront(e.v, ReadRecs(Skip(bytes, size), n - 1, size, what))

ReadRecs(bytes, n, size, what) ==
    IF n = 0 THEN [st |-> "Ok", recs |-> << >>, rest |-> bytes]
    ELSE IF Len(bytes) < size THEN [st |-> "Eof"]
    ELSE ReadRecsNext(EntryFromBytes(what, Take(bytes, size)), bytes, n, size, what)

RecsFailed(r, eof, invalid) ==
    IF r.st = "Eof" THEN ParseErr(eof) ELSE ParsePanic(invalid)

ParseStrtab(head, m, strtab) ==
    IF Len(strtab) # head.data[10]
    THEN ParseErr("Reached end of data while reading string table")
    ELSE ParseOk([m EXCEPT !.strtab = strtab])

ParseSym(head, m, sym) ==
    IF sym.st # "Ok"
    THEN RecsFailed(sym, "Reached end of data while parsing symbol table",
                    "Invalid symtab entry")
    ELSE ParseStrtab(head, [m EXCEPT !.symtab = sym.recs],
                     Take(sym.rest, head.data[10]))

ParseRef(head, m, ref) ==
    IF ref.st # "Ok"
    THEN RecsFailed(ref, "Reached end of data while parsing ref info",
                    "Invalid reference entry")
    ELSE ParseSym(head, [m EXCEPT !.ext_ref = ref.recs],
                  ReadRecs(ref.rest, head.data[9], 16, "sym"))

ParseRel(head, m, rel) ==
    IF rel.st # "Ok"
    THEN RecsFailed(rel, "Reached end of data while parsing rel info",
                    "Invalid relocation entry")
    ELSE ParseRef(head, [m EXCEPT !.rel_info = rel.recs],
                  ReadRecs(rel.rest, head.data[8], 12, "ref"))

ParseSections(head, bytes) ==
    LET b1 == Skip(bytes, head.data[1])
        b2 == Skip(b1, head.data[2])
        b3 == Skip(b2, head.data[3])
    IN  ParseRel(head,
                 [head  |-> head,
                  text  |-> Take(bytes, head.data[1]),
                  rdata |-> Take(b1, head.data[2]),
                  data  |-> Take(b2, head.data[3]),
                  sdata |-> Take(b3, head.data[4]),
                  rel_info |-> << >>, ext_ref |-> << >>, symtab |-> << >>,
                  strtab |-> << >>],
                 ReadRecs(Skip(b3, head.data[4]), head.data[7], 8, "rel"))

ParseHead(head, bytes) ==
    IF ~ head.some THEN ParseErr("Failed to parse header")
    ELSE ParseSections(head.v, bytes)

\* ObjectModule::from_slice_u8; `&data[..52]` panics on fewer than 52 bytes
from_slice_u8(data) ==
    IF Len(data) < HEADER_LEN
    THEN ParsePanic("range end index 52 out of range for slice")
    ELSE ParseHead(Header_from_slice_u8(SubSeq(data, 1, HEADER_LEN)),
                   Skip(data, HEADER_LEN))

\* get_str_entry without the look at the byte before offset
get_str_entry_any(strtab, offset) ==
    LET rest == SubSeq(strtab, offset + 1, Len(strtab))
        nuls == {i \in 1 .. Len(rest) : rest[i] = 0}
    IN  Some(IF nuls = {} THEN rest
             ELSE SubSeq(rest, 1, (CHOOSE i \in nuls : \A j \in nuls : i <= j) - 1))

\* ObjectModule::get_str_entry; CString::new of bytes without a NUL is Ok
get_str_entry(strtab, offset) ==
    IF offset # 0 /\ offset - 1 < Len(strtab) /\ strtab[offset] # 0
    THEN None
    ELSE LET rest == SubSeq(strtab, offset + 1, Len(strtab))
             nuls == {i \in 1 .. Len(rest) : rest[i] = 0}
         IN  Some(IF nuls = {} THEN rest
                  ELSE SubSeq(rest, 1,
                              (CHOOSE i \in nuls : \A j \in nuls : i <= j) - 1))

-----------------------------------------------------------------------------
(* link/linker.rs: string_dedup                                            *)

PushEntry(e, r) == [r EXCEPT !.list = << e >> \o r.list]

\* the first loop: addr_str, the entry read at each address in turn
RECURSIVE addr_str(_, _)
AddrStrNext(strtab, addr, entry) ==
    IF ~ entry.some THEN [panic |-> TRUE, list |-> << >>]
    ELSE PushEntry([addr |-> addr, s |-> entry.v],
                   addr_str(strtab, addr + Len(entry.v) + 1))

addr_str(strtab, addr) ==
    IF ~ (addr < Len(strtab)) THEN [panic |-> FALSE, list |-> << >>]
    ELSE AddrStrNext(strtab, addr, get_str_entry(strtab, addr))

\* the second loop appending every string, seen before or not
RECURSIVE new_bytes_all(_, _, _, _)
new_bytes_all(list, str_addr, addr_map, new_bytes) ==
    IF list = << >> THEN [strtab |-> new_bytes, addr_map |-> addr_map]
    ELSE new_bytes_all(Tail(list),
                       str_addr,
                       (Head(list).addr :> Len(new_bytes)) @@ addr_map,
                       new_bytes \o Head(list).s \o << 0 >>)

\* the second loop sending every repeated string to offset 0
RECURSIVE new_bytes_first(_, _, _, _)
new_bytes_first(list, str_addr, addr_map, new_bytes) ==
    IF list = << >> THEN [strtab |-> new_bytes, addr_map |-> addr_map]
    ELSE IF Head(list).s \in DOMAIN str_addr
    THEN new_bytes_first(Tail(list),
                         str_addr,
                         (Head(list).addr :> 0) @@ addr_map,
                         new_bytes)
    ELSE new_bytes_first(Tail(list),
                         (Head(list).s :> Len(new_bytes)) @@ str_addr,
                         (Head(list).addr :> Len(new_bytes)) @@ addr_map,
                         new_bytes \o Head(list).s \o << 0 >>)

\* the second loop, over the entries in address order: str_addr, addr_map
\* and new_bytes
RECURSIVE new_bytes_of(_, _, _, _)
new_bytes_of(list, str_addr, addr_map, new_bytes) ==
    IF list = << >> THEN [strtab |-> new_bytes, addr_map |-> addr_map]
    ELSE IF Head(list).s \in DOMAIN str_addr
    THEN new_bytes_of(Tail(list),
                      str_addr,
                      (Head(list).addr :> str_addr[Head(list).s]) @@ addr_map,
                      new_bytes)
    ELSE new_bytes_of(Tail(list),
                      (Head(list).s :> Len(new_bytes)) @@ str_addr,
                      (Head(list).addr :> Len(new_bytes)) @@ addr_map,
                      new_bytes \o Head(list).s \o << 0 >>)

EmptyMap == [x \in {} |-> 0]

StringDedupOf(strtab, entries) ==
    IF entries.panic
    THEN [panic |-> TRUE, strtab |-> strtab, addr_map |-> EmptyMap]
    ELSE [panic |-> FALSE] @@ new_bytes_of(entries.list, EmptyMap, EmptyMap, << >>)

\* string_dedup(obj): obj.strtab afterwards and the map returned
string_dedup(strtab) == StringDedupOf(strtab, addr_str(strtab, 0))

-----------------------------------------------------------------------------
(* Object modules written and read back, whole, cut short and with single  *)
(* bytes replaced; string tables looked up                                 *)

MaxRecs == 2
MaxStr  == 4

ObjectOf(flags, entry, text, data, rel, ref, sym, strtab) ==
    [head  |-> [magic |-> MAGIC, version |-> VERSION, flags |-> flags,
                entry |-> entry,
                data  |-> << Len(text), 0, Len(data), 0, 0, 8,
                             Len(rel), Len(ref), Len(sym), Len(strtab) >>],
     text  |-> text, rdata |-> << >>, data |-> data, sdata |-> << >>,
     rel_info |-> rel, ext_ref |-> ref, symtab |-> sym, strtab |-> strtab]

RelOf(addr, sect, typ) == [addr |-> addr, sect |-> sect, rel_info |-> typ]
RefOf(addr, str_off, ix, unknown, typ, sect) ==
    [addr |-> addr, str_off |-> str_off,
     ref_info |-> [ix |-> ix, unknown |-> unknown, typ |-> typ, sect |-> sect]]
SymOf(flags, val, str_off, ofid) ==
    [flags |-> flags, val |-> val, str_off |-> str_off, ofid |-> ofid]

NameTable == << 97, 0, 98, 99, 0 >>      \* "a", "bc"

\* modules with 0..MaxRecs records of each kind, with and without sections
CountedObjects ==
    {ObjectOf(1, TEXT_START, text, << >>,
              [i \in 1 .. nrel |-> RelOf(4 * i, "TEXT", "IMM")],
              [i \in 1 .. nref |-> RefOf(4 * i, 2, 258, "PLUS", "IMM", "TEXT")],
              [i \in 1 .. nsym |-> SymOf(Word(0, 16512 + i), Word(64, 4 * i), 2, 513)],
              strtab) :
        text \in {<< >>, << 1, 2, 3, 4 >>}, strtab \in {<< >>, NameTable},
        nrel \in 0 .. MaxRecs, nref \in 0 .. MaxRecs, nsym \in 0 .. MaxRecs}

\* modules with one relocation, of every section and type
RelObjects ==
    {ObjectOf(0, 0, << 1, 2, 3, 4 >>, << 5 >>, << RelOf(Word(64, 16), l, t) >>,
              << >>, << >>, NameTable) :
        l \in Locations, t \in RefTypes}

\* modules with one reference, of every unknown and type
RefObjects ==
    {ObjectOf(0, 0, << 1, 2, 3, 4 >>, << >>, << >>,
              << RefOf(Word(4096, 8), 2, 258, u, t, l) >>, << >>, NameTable) :
        u \in RefUnknowns, t \in RefTypes, l \in {"TEXT", "NONE"}}

ObjModules == CountedObjects \cup RelObjects \cup RefObjects

\* where the relocation records start in the bytes of m
RelBase(m) == HEADER_LEN + Len(m.text) + Len(m.rdata) + Len(m.data) + Len(m.sdata)

NoPatch == [what |-> "none"]

\* single bytes replaced: in magic and version, and in the section, type
\* and unknown bytes of the first relocation and the first reference
Patches(m) ==
    {[what |-> "head", at |-> i, byte |-> b] :
        i \in 1 .. 4, b \in {0, 250, 206, 44, 198}}
    \cup {[what |-> "rel.sect", at |-> RelBase(m) + 5, byte |-> b] :
            b \in IF m.rel_info = << >> THEN {} ELSE {0, 15, 16, 255}}
    \cup {[what |-> "rel.type", at |-> RelBase(m) + 6, byte |-> b] :
            b \in IF m.rel_info = << >> THEN {} ELSE {0, 1, 5, 6, 7, 255}}
    \cup {[what |-> "ref.sect", at |-> RelBase(m) + 8 * Len(m.rel_info) + 9, byte |-> b] :
            b \in IF m.ext_ref = << >> THEN {} ELSE {0, 15, 16, 255}}
    \cup {[what |-> "ref.info", at |-> RelBase(m) + 8 * Len(m.rel_info) + 10, byte |-> b] :
            b \in IF m.ext_ref = << >> THEN {} ELSE {0, 1, 33, 38, 39, 48, 49, 241}}

PatchedBytes(bytes, p) ==
    IF p.what = "none" THEN bytes ELSE [bytes EXCEPT ![p.at] = p.byte]

\* m.to_vec_u8()
ToVecU8 ==
    /\ driver = "api" /\ call.fn = "none"
    /\ \E m \in ObjModules : \E out \in {to_vec_u8(m)} :
          call' = [fn |-> "to_vec_u8", m |-> m, out |-> out]
    /\ UNCHANGED execVars
    /\ UNCHANGED memVars

\* ObjectModule::from_slice_u8 of the bytes written, of a prefix of them,
\* or of them with one byte replaced
FromSliceU8 ==
    /\ driver = "api" /\ call.fn = "to_vec_u8"
    /\ \E inp \in {[cut |-> n, patch |-> NoPatch] : n \in 0 .. Len(call.out)}
                 \cup {[cut |-> Len(call.out), patch |-> p] : p \in Patches(call.m)} :
         \E data \in {PatchedBytes(SubSeq(call.out, 1, inp.cut), inp.patch)} :
           \E out \in {from_slice_u8(data)} :
              call' = [fn |-> "from_slice_u8", m |-> call.m, whole |-> call.out,
                       data |-> data, patch |-> inp.patch, out |-> out]
    /\ UNCHANGED execVars
    /\ UNCHANGED memVars

\* string tables of up to MaxStr bytes of 0, 'a' and 'b'
StrTabs == UNION {[1 .. n -> {0, 97, 98}] : n \in 0 .. MaxStr}

\* obj.get_str_entry(offset)
GetStrEntry ==
    /\ driver = "api" /\ call.fn = "none"
    /\ \E strtab \in StrTabs : \E offset \in 0 .. Len(strtab) + 1 :
         \E out \in {get_str_entry(strtab, offset)} :
            call' = [fn |-> "get_str_entry", strtab |-> strtab,
                     offset |-> offset, out |-> out]
    /\ UNCHANGED execVars
    /\ UNCHANGED memVars

ObjNext == ToVecU8 \/ FromSliceU8 \/ GetStrEntry
ObjSpecInit == ExecIdle /\ MemIdle /\ LibIdle
ObjSpec == ObjSpecInit /\ [][ObjNext]_vars

-----------------------------------------------------------------------------
(* link/linker.rs: link, up to the todo!() it ends in                      *)

\* bin_sections: the sections link lays out, as `Location as usize`
BinSections ==
    {LocationAsU8(l) : l \in {"TEXT", "RDATA", "DATA", "SDATA", "SBSS", "BSS", "STR"}}

\* the alignment link gives the bases of section loc; 1 is none
SectAlign(loc) ==
    IF loc = LocationAsU8("STR") THEN 1
    ELSE IF loc = LocationAsU8("TEXT") THEN 4 ELSE 8

\* align_to: `*val = ((*val + align - 1) / align) * align`: [panic, val]
align_to(val, align, oc) ==
    IF oc /\ AddOverflowsU32(val, align) THEN [panic |-> TRUE, val |-> val]
    ELSE LET x == WrapSub(WrapAdd(val, align), 1)
         IN  [panic |-> FALSE, val |-> WrapSub(x, DivU(x, align).r)]

\* `info.sect_off[loc] += o.head.data[loc]` and the align_to after it
SectOffNext(off, size, loc, oc) ==
    IF oc /\ AddOverflowsU32(off, size) THEN [panic |-> TRUE, val |-> off]
    ELSE IF SectAlign(loc) = 1 THEN [panic |-> FALSE, val |-> WrapAdd(off, size)]
    ELSE align_to(WrapAdd(off, size), SectAlign(loc), oc)

\* info after one closure call: the offsets of every section moved past o
InfoNext(sect_off, o, oc) ==
    LET n == [loc \in BinSections |->
                 SectOffNext(sect_off[loc + 1], o.head.data[loc + 1], loc, oc)]
    IN  [panic |-> \E loc \in BinSections : n[loc].panic,
         sect_off |-> [i \in 1 .. 10 |->
                          IF (i - 1) \in BinSections THEN n[i - 1].val ELSE sect_off[i]]]

\* the map over obj: [panic, infos (info.sect_off cloned for each module),
\* sect_off (info at the end)]
RECURSIVE LinkInfos(_, _, _, _)
LinkInfosStep(objs, sect_off, infos, oc, n) ==
    IF n.panic THEN [panic |-> TRUE, infos |-> infos, sect_off |-> sect_off]
    ELSE LinkInfos(Tail(objs), n.sect_off, Append(infos, sect_off), oc)

LinkInfos(objs, sect_off, infos, oc) ==
    IF objs = << >> THEN [panic |-> FALSE, infos |-> infos, sect_off |-> sect_off]
    ELSE LinkInfosStep(objs, sect_off, infos, oc, InfoNext(sect_off, Head(objs), oc))

\* `for idx in 0..src.len() { dst[idx + off] = src[idx] }`: [panic, buf];
\* an index past the end of dst panics
CopyAt(dst, off, src) ==
    IF src = << >> THEN [panic |-> FALSE, buf |-> dst]
    ELSE IF off < 0 \/ off + Len(src) > Len(dst) THEN [panic |-> TRUE, buf |-> dst]
    ELSE [panic |-> FALSE,
          buf |-> [i \in 1 .. Len(dst) |->
                      IF i > off /\ i <= off + Len(src) THEN src[i - off] ELSE dst[i]]]

\* the five copy loops for one module; .data is copied into out.rdata
ConcatOne(out, om, off) ==
    LET t  == CopyAt(out.text, off[LocationAsU8("TEXT") + 1], om.text)
        r  == CopyAt(out.rdata, off[LocationAsU8("RDATA") + 1], om.rdata)
        d  == CopyAt(r.buf, off[LocationAsU8("DATA") + 1], om.data)
        sd == CopyAt(out.sdata, off[LocationAsU8("SDATA") + 1], om.sdata)
        st == CopyAt(out.strtab, off[LocationAsU8("STR") + 1], om.strtab)
    IN  [panic |-> t.panic \/ r.panic \/ d.panic \/ sd.panic \/ st.panic,
         out |-> [out EXCEPT !.text = t.buf, !.rdata = d.buf, !.sdata = sd.buf,
                             !.strtab = st.buf]]

\* the concatenation loop over (om, info): [panic, out]
RECURSIVE Concat(_, _, _)
ConcatStep(c, objs, infos) ==
    IF c.panic THEN c ELSE Concat(c.out, Tail(objs), Tail(infos))

Concat(out, objs, infos) ==
    IF objs = << >> THEN [panic |-> FALSE, out |-> out]
    ELSE ConcatStep(ConcatOne(out, Head(objs), Head(infos)), objs, infos)

\* `vec![0; n]`
ZeroVec(n) == [i \in 1 .. n |-> 0]

\* the output module as constructed, before the copy loops
LinkOut(sect_off) ==
    [head |-> [magic |-> MAGIC, version |-> VERSION, flags |-> 0, entry |-> 0,
               data |-> sect_off],
     text   |-> ZeroVec(sect_off[LocationAsU8("TEXT") + 1]),
     rdata  |-> ZeroVec(sect_off[LocationAsU8("RDATA") + 1]),
     data   |-> ZeroVec(sect_off[LocationAsU8("DATA") + 1]),
     sdata  |-> ZeroVec(sect_off[LocationAsU8("SDATA") + 1]),
     rel_info |-> << >>, ext_ref |-> << >>, symtab |-> << >>,
     strtab |-> ZeroVec(sect_off[LocationAsU8("STR") + 1])]

\* link, given the result li of the map over obj: what it had computed when
\* it panicked, at an overflow ("offsets"), in a copy loop ("concat") or at
\* the todo!() every other call ends in
LinkOf(objs, li) ==
    IF li.panic
    THEN [panic |-> "offsets", infos |-> li.infos, sect_off |-> li.sect_off]
    ELSE LET c == Concat(LinkOut(li.sect_off), objs, li.infos)
         IN  [panic |-> IF c.panic THEN "concat" ELSE "todo",
              infos |-> li.infos, sect_off |-> li.sect_off, out |-> c.out]

link(objs, oc) == LinkOf(objs, LinkInfos(objs, [i \in 1 .. 10 |-> 0], << >>, oc))

\* an object module with the given sections, its header sizes theirs
LinkObj(text, rdata, data, sdata, sbss, bss, strtab) ==
    [head |-> [magic |-> MAGIC, version |-> VERSION, flags |-> 0, entry |-> 0,
               data |-> << Len(text), Len(rdata), Len(data), Len(sdata), sbss, bss,
                           0, 0, 0, Len(strtab) >>],
     text |-> text, rdata |-> rdata, data |-> data, sdata |-> sdata,
     rel_info |-> << >>, ext_ref |-> << >>, symtab |-> << >>, strtab |-> strtab]

MaxObjs == 2

LinkObjs ==
    {LinkObj(t, r, d, r, 0, b, << 97, 0 >>) :
        t \in {<< >>, << 1, 2, 3, 4, 5 >>}, r \in {<< >>, << 6 >>},
        d \in {<< >>, << 7, 8, 9 >>}, b \in {12, I32Min}}

\* lists of up to MaxObjs modules, and some of MaxObjs + 1 modules
LinkInputs ==
    UNION {[1 .. n -> LinkObjs] : n \in 0 .. MaxObjs}
    \cup [1 .. (MaxObjs + 1) ->
            {LinkObj(t, << 6 >>, << >>, << >>, 3, 0, << 98, 0 >>) :
                t \in {<< 1 >>, << 1, 2, 3, 4 >>}}]

\* link(obj, args)
Link ==
    /\ driver = "api" /\ call.fn = "none"
    /\ \E objs \in LinkInputs, oc \in BOOLEAN : \E out \in {link(objs, oc)} :
          call' = [fn |-> "link", objs |-> objs, oc |-> oc, out |-> out]
    /\ UNCHANGED execVars
    /\ UNCHANGED memVars

\* string_dedup(&mut out) on a merged string table
StringDedup ==
    /\ driver = "api" /\ call.fn = "none"
    /\ \E strtab \in StrTabs : \E out \in {string_dedup(strtab)} :
          call' = [fn |-> "string_dedup", strtab |-> strtab, out |-> out]
    /\ UNCHANGED execVars
    /\ UNCHANGED memVars

\* a lookup in the table string_dedup left
LookupDeduped ==
    /\ driver = "api" /\ call.fn = "string_dedup" /\ ~ call.out.panic
    /\ \E offset \in 0 .. Len(call.out.strtab) :
         \E out \in {get_str_entry(call.out.strtab, offset)} :
            call' = [fn |-> "get_str_entry", strtab |-> call.out.strtab,
                     offset |-> offset, out |-> out]
    /\ UNCHANGED execVars
    /\ UNCHANGED memVars

LinkNext == StringDedup \/ LookupDeduped \/ Link
LinkSpecInit == ExecIdle /\ MemIdle /\ LibIdle
LinkSpec == LinkSpecInit /\ [][LinkNext]_vars

-----------------------------------------------------------------------------
(* Properties of the object module codec and of the string table           *)

Parsed == call.fn = "from_slice_u8"

EndOfData ==
    {"Reached end of data while parsing rel info",
     "Reached end of data while parsing ref info",
     "Reached end of data while parsing symbol table",
     "Reached end of data while reading string table"}

\* C15: a module whose header sizes are its section lengths and record
\* counts, written with to_vec_u8 and read with from_slice_u8, comes back
\* equal, in every field of every record and for every value of RefType and
\* RefUnknown.
C15_ParseSerialize ==
    (Parsed /\ call.data = call.whole) => call.out = ParseOk(call.m)

\* C16: an input whose first four bytes are not FA CE 2C C6 is rejected.
C16_HeaderValidated ==
    (Parsed /\ Len(call.data) >= 4
            /\ SubSeq(call.data, 1, 4) # << 250, 206, 44, 198 >>)
        => call.out.kind = "Err"

\* C17: an input cut short at any position gives an end-of-data error, and
\* the parts of a module that parse returns have the lengths and counts of
\* header sizes 0..3 and 6..9.
C17_Truncated ==
    /\ (Parsed /\ call.patch = NoPatch /\ Len(call.data) < Len(call.whole))
          => (call.out.kind = "Err" /\ call.out.msg \in EndOfData)
    /\ (Parsed /\ call.out.kind = "Ok") =>
          /\ Len(call.out.m.text) = call.out.m.head.data[1]
          /\ Len(call.out.m.rdata) = call.out.m.head.data[2]
          /\ Len(call.out.m.data) = call.out.m.head.data[3]
          /\ Len(call.out.m.sdata) = call.out.m.head.data[4]
          /\ Len(call.out.m.rel_info) = call.out.m.head.data[7]
          /\ Len(call.out.m.ext_ref) = call.out.m.head.data[8]
          /\ Len(call.out.m.symtab) = call.out.m.head.data[9]
          /\ Len(call.out.m.strtab) = call.out.m.head.data[10]

\* the byte put into a record is no section, no type or no unknown
OutOfRange(p) ==
    \/ p.what \in {"rel.sect", "ref.sect"} /\ p.byte \notin 0 .. 15
    \/ p.what = "rel.type" /\ p.byte \notin 1 .. 6
    \/ p.what = "ref.info" /\ (p.byte \div 16 \notin 0 .. 2 \/ p.byte % 16 \notin 1 .. 6)

\* C18: a relocation or reference record with a section byte outside 0..15,
\* a type outside the RefType range or an unknown nibble outside 0..2 makes
\* parse return an error: no abort, no module.
C18_EnumRejected ==
    (Parsed /\ OutOfRange(call.patch)) => call.out.kind = "Err"

\* C19: get_str_entry(offset) is None when offset > 0 and the byte at
\* offset-1 is not NUL; for offset 0 or an offset right after a NUL it is
\* the bytes from offset up to, not including, the next NUL (or the end of
\* the table when no NUL follows).
C19_GetStrEntry ==
    call.fn = "get_str_entry" =>
        /\ (call.offset > 0 /\ call.offset <= Len(call.strtab)
              /\ call.strtab[call.offset] # 0) => call.out = None
        /\ (call.offset = 0
              \/ (call.offset <= Len(call.strtab) /\ call.strtab[call.offset] = 0))
           => /\ call.out.some
              /\ \A i \in 1 .. Len(call.out.v) :
                    call.out.v[i] # 0 /\ call.out.v[i] = call.strtab[call.offset + i]
              /\ \/ call.offset + Len(call.out.v) >= Len(call.strtab)
                 \/ call.strtab[call.offset + Len(call.out.v) + 1] = 0

\* "b" was read at offset 2 of "a\0b\0"
C19_ReadAfterNul ==
    /\ call.fn = "get_str_entry"
    /\ call.strtab = << 97, 0, 98, 0 >> /\ call.offset = 2
    /\ call.out = Some(<< 98 >>)

\* the offsets at which the strings of table t start, and the string at o
StartsOf(t) == {o \in 0 .. Len(t) - 1 : o = 0 \/ t[o] = 0}
RECURSIVE StringAt(_, _)
StringAt(t, o) ==
    IF o >= Len(t) \/ t[o + 1] = 0 THEN << >>
    ELSE << t[o + 1] >> \o StringAt(t, o + 1)

\* C20: after string_dedup every offset in the returned map is 0 or follows
\* a NUL of the new table, and every distinct string of the merged table
\* occurs exactly once in the new table.
C20_DedupWellFormed ==
    call.fn = "string_dedup" =>
        /\ ~ call.out.panic
        /\ \A o \in DOMAIN call.out.addr_map :
              \/ call.out.addr_map[o] = 0
              \/ /\ call.out.addr_map[o] \in 1 .. Len(call.out.strtab)
                 /\ call.out.strtab[call.out.addr_map[o]] = 0
        /\ {StringAt(call.out.strtab, n) : n \in StartsOf(call.out.strtab)}
              = {StringAt(call.strtab, o) : o \in StartsOf(call.strtab)}
        /\ \A a, b \in StartsOf(call.out.strtab) :
              a # b => StringAt(call.out.strtab, a) # StringAt(call.out.strtab, b)

\* "\0a\0\0" became "\0a\0": the empty string at 3 goes to 0, "a" stays at 1
C20_DuplicateDropped ==
    /\ call.fn = "string_dedup"
    /\ call.strtab = << 0, 97, 0, 0 >>
    /\ call.out.strtab = << 0, 97, 0 >>
    /\ call.out.addr_map = (0 :> 0) @@ (1 :> 1) @@ (3 :> 0)

-----------------------------------------------------------------------------
(* The heap and the file descriptors                                       *)

\* a call of step was made
StepTaken == execVars' # execVars

\* the call of step executed the syscall numbered n
SyscallStep(n) ==
    /\ StepTaken
    /\ (ExecutedR({FUNCT_SYSCALL}))'
    /\ Reg(exec, V0) = n

\* ceil(a / 4096) for a u32
CeilPages(a) == Shr(a, PAGE_BITS) + (IF a % PAGE_SIZE = 0 THEN 0 ELSE 1)

HeapPages(e) == Shr(e.heap_size, PAGE_BITS)

\* [heap start, heap start + heap size) lies in mapped, writable pages
HeapMapped(e) ==
    \A k \in 0 .. (HeapPages(e) - 1) :
        Writable(e.mem, WrapAdd(e.heap_start, k * PAGE_SIZE))

\* C21: the heap is empty in a new Exec, only sbrk changes its size, and
\* every sbrk call returns Ok with v0 = heap start and v1 = heap size, where
\* the size has grown by 4096 * ceil(a0 / 4096) (so that it is 4096 times the
\* pages added by all the calls) and the whole heap range is mapped and
\* writable.
C21_SbrkAccounting ==
    /\ [](JustConstructed => exec.heap_size = 0)
    /\ [][StepTaken =>
            IF SyscallStep(SYSCALL_SBRK)
            THEN /\ last'.ret = "Ok"
                 /\ Reg(exec', V0) = exec'.heap_start
                 /\ Reg(exec', V1) = exec'.heap_size
                 /\ exec'.heap_size % PAGE_SIZE = 0
                 /\ HeapPages(exec') = HeapPages(exec) + CeilPages(Reg(exec, A0))
                 /\ HeapMapped(exec')
            ELSE exec'.heap_size = exec.heap_size]_vars

PagesOf(n) == (n + PAGE_SIZE - 1) \div PAGE_SIZE

\* the next free page address after the .bss of an image made from mod
HeapBase(mod) ==
    WrapAdd(DATA_START,
            PAGE_SIZE * (PagesOf(Len(mod.rdata)) + PagesOf(Len(mod.data))
                         + PagesOf(Len(mod.sdata)) + PagesOf(mod.head.data[5])
                         + PagesOf(mod.head.data[6])))

\* C22: an sbrk call made while the heap is still empty returns in v0 the
\* next free page address after the .bss, at or above DATA_START, and the
\* pages it allocates are mapped from that address upward.
C22_HeapAfterBss ==
    [][SyscallStep(SYSCALL_SBRK) /\ last'.ret = "Ok" /\ exec.heap_size = 0 =>
            /\ Reg(exec', V0) = HeapBase(module)
            /\ ~ LtU(Reg(exec', V0), DATA_START)
            /\ \A k \in 0 .. (CeilPages(Reg(exec, A0)) - 1) :
                  Writable(exec'.mem, WrapAdd(HeapBase(module), k * PAGE_SIZE))]_vars

\* the name a0 points at is the name of a file the host can open
HostOpens(e) ==
    \E n \in {read_string(e.mem, Reg(e, A0), FALSE)} :
        n.ok /\ n.s \in DOMAIN HostFiles

\* the call of step executed an open syscall to its end
OpenStep == SyscallStep(SYSCALL_OPEN) /\ last'.ret = "Ok"

C24_UnknownDescriptor ==
    [][(SyscallStep(SYSCALL_READ) \/ SyscallStep(SYSCALL_WRITE))
         /\ Reg(exec, A0) \notin DOMAIN exec.files =>
            /\ Reg(exec', V0) = MinusOne
            /\ exec'.mem = exec.mem
            /\ exec'.files = exec.files]_vars

-----------------------------------------------------------------------------
(* Branches on sign, multiplication, jumps and loads                       *)

\* the fields of the word the last call of step fetched
FetchedOpcode == (last.word \div 67108864) % 64
FetchedRs     == (last.word \div 2097152) % 32
FetchedRt     == (last.word \div 65536) % 32
FetchedImm    == last.word % 65536

Fetched == last.ret \notin {"none", "ErrFetch"}

\* pc after a step at last.pre.ctx.pc whose branch is taken, or not
PcTaken(imm) == WrapAdd(WrapAdd(last.pre.ctx.pc, SignExt16(imm) * 4), 4)
PcNext == WrapAdd(last.pre.ctx.pc, 4)

BcondTaken(rt, v) == IF rt \in {BCOND_BLTZ, BCOND_BLTZAL} THEN v < 0 ELSE v >= 0

\* C25: a fetched word with opcode 0o01 and rt field 0o00, 0o01, 0o20 or
\* 0o21 is executed as BLTZ, BGEZ, BLTZAL or BGEZAL: step returns Ok, pc is
\* p + (sext(imm) << 2) + 4 when the signed condition holds and p + 4 when
\* not, and a taken AL variant leaves the return address p in reg[31].
C25_Bcond ==
    (/\ Fetched
     /\ FetchedOpcode = OP_BCOND
     /\ FetchedRt \in {BCOND_BLTZ, BCOND_BGEZ, BCOND_BLTZAL, BCOND_BGEZAL}) =>
        /\ last.ret = "Ok"
        /\ exec.ctx.pc = IF BcondTaken(FetchedRt, PreReg(FetchedRs))
                         THEN PcTaken(FetchedImm) ELSE PcNext
        /\ (/\ FetchedRt \in {BCOND_BLTZAL, BCOND_BGEZAL}
            /\ BcondTaken(FetchedRt, PreReg(FetchedRs))) =>
               Reg(exec, RA) = last.pre.ctx.pc

\* C26: BGTZ takes its branch exactly when reg[rs] as a signed number is
\* > 0 (never when bit 31 is set), BLEZ exactly when it is <= 0.
C26_SignedBranch ==
    (ExecutedI({OP_BGTZ, OP_BLEZ}) /\ last.ret = "Ok") =>
        exec.ctx.pc =
            IF (last.inst.op = OP_BGTZ /\ PreReg(last.inst.rs) > 0)
               \/ (last.inst.op = OP_BLEZ /\ PreReg(last.inst.rs) <= 0)
            THEN PcTaken(last.inst.imm) ELSE PcNext

\* the 64-bit product of the operands of the last MULT or MULTU
Product ==
    IF last.inst.funct = FUNCT_MULT
    THEN MulS64(PreReg(last.inst.rs), PreReg(last.inst.rt))
    ELSE MulU64(PreReg(last.inst.rs), PreReg(last.inst.rt))

\* C27: after MULT (MULTU) HI holds the high and LO the low 32 bits of the
\* signed (unsigned) 64-bit product of reg[rs] and reg[rt].
C27_Product ==
    ExecutedR({FUNCT_MULT, FUNCT_MULTU}) =>
        /\ exec.ctx.hi = Product.hi
        /\ exec.ctx.lo = Product.lo

ExecutedJ(ops) == Executed /\ last.inst.form = "J" /\ last.inst.op \in ops

\* C28: a JAL at p leaves reg[31] = p; a JR rs leaves pc = reg[rs] + 4 (so
\* JR $ra with reg[31] = p continues at p + 4); a JALR at p leaves
\* reg[rd] = p and pc = (reg[rs] before the instruction) + 4, also when
\* rd = rs.
C28_Linkage ==
    /\ (ExecutedJ({OP_JAL}) /\ last.ret = "Ok") =>
          Reg(exec, RA) = last.pre.ctx.pc
    /\ (ExecutedR({FUNCT_JR}) /\ last.ret = "Ok") =>
          exec.ctx.pc = WrapAdd(PreReg(last.inst.rs), 4)
    /\ (ExecutedR({FUNCT_JALR}) /\ last.ret = "Ok") =>
          /\ Reg(exec, last.inst.rd) = last.pre.ctx.pc
          /\ exec.ctx.pc = WrapAdd(PreReg(last.inst.rs), 4)

\* C29: a step executing J imm at p returns Ok and leaves
\* pc = (p & 0xF0000000) | (imm << 2), for every imm and p.
C29_Jump ==
    ExecutedJ({OP_J}) =>
        /\ last.ret = "Ok"
        /\ exec.ctx.pc = (last.pre.ctx.pc - (last.pre.ctx.pc % 268435456))
                            + last.inst.imm * 4

LoadOps == {OP_LB, OP_LH, OP_LW, OP_LBU, OP_LHU}

\* what a load of the last instruction's width reads at address a
LoadRead(a) ==
    CASE last.inst.op \in {OP_LB, OP_LBU} -> read_byte(exec.mem, a)
      [] last.inst.op \in {OP_LH, OP_LHU} -> read_half(exec.mem, a)
      [] OTHER -> read_word(exec.mem, a)

\* the value v read, extended as the last instruction extends it
LoadExtended(v) ==
    CASE last.inst.op = OP_LB -> (IF v >= 128 THEN Word(65535, 65280 + v) ELSE v)
      [] last.inst.op = OP_LH -> (IF v >= 32768 THEN Word(65535, v) ELSE v)
      [] OTHER -> v

\* C30: LB, LH, LW, LBU and LHU access (reg[rs] + sext(imm)) mod 2^32 for
\* every reg[rs] and imm; the value read is sign-extended by LB and LH and
\* zero-extended by LBU and LHU; when the access fails a Memory trap is
\* raised and reg[rt] keeps its value.
C30_Loads ==
    ExecutedI(LoadOps) =>
        /\ last.ret # "Panic"
        /\ \E r \in {LoadRead(PreAddr)} :
             IF r.ok
             THEN /\ last.ret = "Ok"
                  /\ last.inst.rt # ZERO => Reg(exec, last.inst.rt) = LoadExtended(r.val)
             ELSE /\ "Memory" \in RaisedKinds
                  /\ Reg(exec, last.inst.rt) = PreReg(last.inst.rt)

-----------------------------------------------------------------------------
(* The linker's section layout, concatenation and string table             *)

LinkCalled == call.fn = "link"

\* the sections the linker lays out and the alignment of their bases
LaidOut == {0, 1, 2, 3, 4, 5, 9}
BaseAlign(loc) == CASE loc = 0 -> 4 [] loc = 9 -> 1 [] OTHER -> 8

\* module k's size and base in section loc, and the base after module k
SizeIn(k, loc) == call.objs[k].head.data[loc + 1]
BaseIn(k, loc) == call.out.infos[k][loc + 1]
BaseAfter(k, loc) ==
    IF k < Len(call.objs) THEN BaseIn(k + 1, loc) ELSE call.out.sect_off[loc + 1]

\* b is s rounded up to a multiple of align, as u32 values
RoundsUpTo(b, s, align) ==
    /\ DivU(b, align).r = 0
    /\ ~ LtU(b, s)
    /\ LtU(WrapSub(b, s), align)

\* C31: for every section of TEXT, RDATA, DATA, SDATA, SBSS, BSS and STR the
\* first module's base is 0, the base after module k is base + size of
\* module k rounded up to 4 (TEXT), 8 (others) or not at all (STR), the
\* ranges [base, base + size) of different modules are disjoint and lie
\* within the output section, whose length is the final running sum.
C31_SectionBases ==
    LinkCalled =>
        /\ call.out.panic # "offsets"
        /\ Len(call.out.infos) = Len(call.objs)
        /\ \A loc \in LaidOut :
              /\ call.objs = << >> => call.out.sect_off[loc + 1] = 0
              /\ call.objs # << >> => BaseIn(1, loc) = 0
              /\ \A k \in 1 .. Len(call.objs) :
                    /\ ~ AddOverflowsU32(BaseIn(k, loc), SizeIn(k, loc))
                    /\ RoundsUpTo(BaseAfter(k, loc),
                                  WrapAdd(BaseIn(k, loc), SizeIn(k, loc)),
                                  BaseAlign(loc))
                    /\ ~ LtU(call.out.sect_off[loc + 1],
                             WrapAdd(BaseIn(k, loc), SizeIn(k, loc)))
              /\ \A i, j \in 1 .. Len(call.objs) :
                    i < j => ~ LtU(BaseIn(j, loc),
                                   WrapAdd(BaseIn(i, loc), SizeIn(i, loc)))
        /\ Len(call.out.out.text) = call.out.sect_off[1]
        /\ Len(call.out.out.rdata) = call.out.sect_off[2]
        /\ Len(call.out.out.data) = call.out.sect_off[3]
        /\ Len(call.out.out.sdata) = call.out.sect_off[4]
        /\ Len(call.out.out.strtab) = call.out.sect_off[10]

\* the bytes of section sec (at header index loc) of modules and output
SectionOf(m, loc) ==
    CASE loc = 0 -> m.text [] loc = 1 -> m.rdata [] loc = 2 -> m.data
      [] loc = 3 -> m.sdata [] OTHER -> m.strtab

\* output position i (from 1) of section loc is covered by module k
Covers(k, loc, i) ==
    i > BaseIn(k, loc) /\ i <= BaseIn(k, loc) + Len(SectionOf(call.objs[k], loc))

\* C32: after the concatenation step the output section of each kind (text,
\* rdata, data, sdata, string table) holds every module's bytes at
\* [base, base + length), and every output byte no module covers is zero.
C32_Concatenated ==
    (LinkCalled /\ call.out.panic # "offsets") =>
        /\ call.out.panic # "concat"
        /\ \A loc \in {0, 1, 2, 3, 9} :
             \A i \in 1 .. Len(SectionOf(call.out.out, loc)) :
                /\ \A k \in 1 .. Len(call.objs) :
                      Covers(k, loc, i) =>
                         SectionOf(call.out.out, loc)[i]
                            = SectionOf(call.objs[k], loc)[i - BaseIn(k, loc)]
                /\ (\A k \in 1 .. Len(call.objs) : ~ Covers(k, loc, i)) =>
                      SectionOf(call.out.out, loc)[i] = 0
        /\ \A loc \in {0, 1, 2, 3, 9} : \A k \in 1 .. Len(call.objs) :
              BaseIn(k, loc) + Len(SectionOf(call.objs[k], loc))
                 <= Len(SectionOf(call.out.out, loc))

\* the strings of table t from offset o on, in order
RECURSIVE StringsFrom(_, _)
StringsFrom(t, o) ==
    IF o >= Len(t) THEN << >>
    ELSE << StringAt(t, o) >> \o StringsFrom(t, o + Len(StringAt(t, o)) + 1)

\* ss without the strings in seen and without repetitions, order kept
RECURSIVE FirstOccurrences(_, _)
FirstOccurrences(ss, seen) ==
    IF ss = << >> THEN << >>
    ELSE IF Head(ss) \in seen THEN FirstOccurrences(Tail(ss), seen)
    ELSE << Head(ss) >> \o FirstOccurrences(Tail(ss), seen \cup {Head(ss)})

\* the table of the strings ss, each followed by a NUL
RECURSIVE TableOf(_)
TableOf(ss) == IF ss = << >> THEN << >> ELSE Head(ss) \o << 0 >> \o TableOf(Tail(ss))

\* C33: the map string_dedup returns is defined exactly on the offsets at
\* which a string of the merged table starts; the string at map[o] in the
\* compact table is the string at o in the merged table; the compact table
\* is the distinct strings in order of first occurrence; string_dedup on the
\* compact table leaves it unchanged and returns the identity map.
C33_DedupMap ==
    call.fn = "string_dedup" =>
        /\ ~ call.out.panic
        /\ DOMAIN call.out.addr_map = StartsOf(call.strtab)
        /\ \A o \in StartsOf(call.strtab) :
              /\ call.out.addr_map[o] \in StartsOf(call.out.strtab)
              /\ StringAt(call.out.strtab, call.out.addr_map[o])
                    = StringAt(call.strtab, o)
        /\ call.out.strtab = TableOf(FirstOccurrences(StringsFrom(call.strtab, 0), {}))
        /\ string_dedup(call.out.strtab) =
              [panic |-> FALSE, strtab |-> call.out.strtab,
               addr_map |-> [o \in StartsOf(call.out.strtab) |-> o]]

\* "\0a\0a" became "\0a\0": the second "a", at 3, is found at 1
C33_RepeatMapped ==
    /\ call.fn = "string_dedup"
    /\ call.strtab = << 0, 97, 0, 97 >>
    /\ call.out.strtab = << 0, 97, 0 >>
    /\ call.out.addr_map[3] = 1

-----------------------------------------------------------------------------
(* Memory: alloc_data, alloc_page and the page table                       *)

\* the bytes of the last alloc_data call (memlast keeps their number)
DataOf(l) == (CHOOSE c \in AllocCalls : c[1] = l.addr /\ Len(c[2]) = l.len)[2]

\* the j-th virtual page from the page of address b, and the address of
\* offset off of virtual page vp
PageFrom(b, j) == (VirtPage(b) + j) % (2 ^ (32 - PAGE_BITS))
AddrIn(vp, off) == Or32(Shl(vp, PAGE_BITS), off)

\* the virtual pages that m2 maps and m1 does not
NewPages(m1, m2) == (DOMAIN m2.table) \ (DOMAIN m1.table)

\* what alloc_data(l.addr, DataOf(l), ..) is to have done between m1 and m2
AllocatedAsStated(m1, m2, l) ==
    LET k == PagesOf(l.len)
    IN  /\ ~ l.panic
        /\ NewPages(m1, m2) = {PageFrom(l.addr, j) : j \in 0 .. (k - 1)}
        /\ Cardinality(NewPages(m1, m2)) = k
        /\ DOMAIN m1.table \subseteq DOMAIN m2.table
        /\ \A i \in 1 .. l.len :
              read_byte(m2, WrapAdd(l.addr, i - 1)) = MemOk(DataOf(l)[i])
        /\ \A vp \in NewPages(m1, m2) :
              \A off \in DOMAIN Frame(m2, m2.table[vp]) :
                 LtU(WrapSub(AddrIn(vp, off), l.addr), l.len)
        /\ l.next = WrapAdd(l.addr, PAGE_SIZE * k)

\* C34: alloc_data(base, bytes, write, exec) maps ceil(len / 4096) new
\* consecutive virtual pages starting at the page of base, bytes[i] is read
\* at base + i, every other byte of the new pages is 0, and the call returns
\* base + 4096 * ceil(len / 4096).
C34_AllocData ==
    [][memlast'.op = "alloc_data" => AllocatedAsStated(memory, memory', memlast')]_vars

-----------------------------------------------------------------------------
(* The read syscall; traps; totality of step                               *)

\* the bytes of descriptor fd's file that have not been read: nothing moves
\* the file position before the first write
Unread(e, fd) == HostFiles[e.files[fd].name]

\* the call of step executed read(fd, buf, n) with n >= 1 on a descriptor
\* open for reading whose file has unread bytes
ReadStep ==
    /\ SyscallStep(SYSCALL_READ)
    /\ Reg(exec, A0) \in DOMAIN exec.files
    /\ exec.files[Reg(exec, A0)].read
    /\ exec.files[Reg(exec, A0)].written = << >>
    /\ Reg(exec, A2) # 0
    /\ Unread(exec, Reg(exec, A0)) # << >>

\* C35: a read syscall with a2 = n >= 1 on an open descriptor whose file has
\* k >= 1 unread bytes sets v0 = c with 1 <= c <= min(n, k), and the c bytes
\* read are in guest memory at a1 .. a1 + c - 1.
C35_Read ==
    [][ReadStep =>
         LET c == Reg(exec', V0)
             k == Len(Unread(exec, Reg(exec, A0)))
         IN  /\ 1 <= c /\ c <= k /\ ~ LtU(Reg(exec, A2), c)
             /\ \A i \in 1 .. c :
                   read_byte(exec'.mem, WrapAdd(Reg(exec, A1), i - 1))
                     = MemOk(Unread(exec, Reg(exec, A0))[i])]_vars

\* what a call of step returns as an error
StepErrors == {"ErrFetch", "ErrDecode", "ErrException"}

\* C36: once a step has returned a trap error the recorded trap is never
\* cleared: every later call of step on the Exec returns an error and leaves
\* pc at the trapping instruction; under run no step follows the first
\* error.
C36_TrapPersists ==
    /\ [] (last.ret = "ErrException" => exec.exn.some)
    /\ [][/\ (exec.exn.some /\ StepTaken) =>
               /\ exec'.exn.some
               /\ last'.ret \in StepErrors
               /\ exec'.ctx.pc = exec.ctx.pc
           /\ ~ (driver = "run" /\ last.ret \in StepErrors)]_vars

-----------------------------------------------------------------------------
(* Memory: the page table's shape; what alloc_page and the accesses leave   *)
(* alone                                                                    *)

\* one word-aligned address in each page the calls of the model can map
PageAddrs == {TEXT_START, WrapAdd(TEXT_START, PAGE_SIZE), DATA_START, LastPage, 0}

\* what the three writes leave of m
WritesAt(m, a) ==
    {write_byte(m, a, 255).mem, write_half(m, a, Lo16(Pattern)).mem,
     write_word(m, a, Pattern).mem}

\* C37: in every Memory reached through new, alloc_page, alloc_data and the
\* reads and writes, table, write and exec have the same keys, table is
\* injective, every real id in table indexes a frame of pages, there are as
\* many frames as mapped virtual pages, and a write through one virtual
\* page changes nothing of what is read through another.
C37_PageTable ==
    /\ DOMAIN memory.table = DOMAIN memory.write
    /\ DOMAIN memory.table = DOMAIN memory.exec
    /\ \A v1, v2 \in DOMAIN memory.table :
          memory.table[v1] = memory.table[v2] => v1 = v2
    /\ \A v \in DOMAIN memory.table :
          memory.table[v] \in 0 .. (Len(memory.pages) - 1)
    /\ Len(memory.pages) = Cardinality(DOMAIN memory.table)
    /\ \A a \in PageAddrs :
          \A m \in WritesAt(memory, a) :
             /\ m.table = memory.table
             /\ \A v \in (DOMAIN memory.table) \ {VirtPage(a)} :
                   Frame(m, m.table[v]) = Frame(memory, memory.table[v])

\* three pages are mapped, two of them by one alloc_data call, and a byte
\* was written
C37_ThreePagesWritten ==
    /\ Len(memory.pages) = 3
    /\ {VirtPage(TEXT_START), VirtPage(TEXT_START) + 1} \subseteq DOMAIN memory.table
    /\ memlast.op = "write_byte"
    /\ memlast.ok

\* C38: alloc_page on a virtual page that is already mapped returns no page
\* and leaves the page table, the page's write and exec flags, the frame
\* sequence and every frame's contents as they were.
C38_MappedPageKept ==
    [][(memlast'.op = "alloc_page"
          /\ VirtPage(memlast'.addr) \in DOMAIN memory.table) =>
            /\ ~ memlast'.some
            /\ memory'.table = memory.table
            /\ memory'.write = memory.write
            /\ memory'.exec = memory.exec
            /\ memory'.pages = memory.pages]_vars

\* alloc_page was called with write = true on the first of the two
\* read-only pages alloc_data had filled, and returned no page
C38_CalledOnMapped ==
    /\ memlast.op = "alloc_page"
    /\ memlast.addr = TEXT_START
    /\ memlast.write
    /\ ~ memlast.some
    /\ Len(memory.pages) = 2
    /\ memory.pages[1] # ZeroPage
    /\ ~ memory.write[VirtPage(TEXT_START)]

ReadOps == {"read_byte", "read_half", "read_word"}

\* the bytes a write_byte, write_half, write_word stores
WidthOf(op) == IF op = "write_word" THEN 4 ELSE IF op = "write_half" THEN 2 ELSE 1

\* m2 differs from m1 in nothing but bytes a .. a + n - 1 of the frame a's
\* page is mapped to
OnlyChanged(m1, m2, a, n) ==
    /\ m2.table = m1.table /\ m2.write = m1.write /\ m2.exec = m1.exec
    /\ Len(m2.pages) = Len(m1.pages)
    /\ \A id \in 1 .. Len(m1.pages) :
          \A off \in (DOMAIN m1.pages[id]) \cup (DOMAIN m2.pages[id]) :
             PageGet(m2.pages[id], off) # PageGet(m1.pages[id], off) =>
                /\ id = m1.table[VirtPage(a)] + 1
                /\ off \in (a % PAGE_SIZE) .. ((a % PAGE_SIZE) + n - 1)

\* what a write returning w is to have left of m
WriteKept(m, w, a, n) ==
    IF w.ok THEN OnlyChanged(m, w.mem, a, n) ELSE w.mem = m

\* C39: a write_byte, write_half or write_word that returns an error
\* (misaligned, unmapped, read-only) leaves every frame and the page table
\* unchanged; one that succeeds changes only the 1, 2 or 4 addressed bytes;
\* the reads change nothing of the Memory.
C39_WritesAndReads ==
    /\ [] (memlast.op \in WriteOps =>
             WriteKept(memlast.pre, [ok |-> memlast.ok, mem |-> memory],
                       memlast.addr, WidthOf(memlast.op)))
    /\ [] (\A a \in MemAddrs :
             /\ WriteKept(memory, write_byte(memory, a, 255), a, 1)
             /\ WriteKept(memory, write_half(memory, a, Lo16(Pattern)), a, 2)
             /\ WriteKept(memory, write_word(memory, a, Pattern), a, 4))
    /\ [][memlast'.op \in ReadOps => memory' = memory]_vars

\* a write_half stored two bytes in the second half of a word
C39_HalfWritten ==
    /\ memlast.op = "write_half"
    /\ memlast.ok
    /\ memlast.addr % 4 = 2
    /\ memory # memlast.pre

\* C40: step is total: for every word the decoder accepts (LWL, LWR, SWL and
\* SWR included) and every register and memory state (SYSCALL or BREAK with
\* any $v0 included) a call of step returns Ok or an error; it never aborts
\* the simulator.
C40_StepTotal ==
    /\ last.ret \in {"none", "Ok"} \cup StepErrors
    /\ driver \in {"run", "step"} => alive

=============================================================================
